---- MODULE Spec2Model ----
(***************************************************************************)
(* A model of the template-generation demos: the Jinja2 renders of the     *)
(* demo scripts and of chapter2/examples/jinja2-example.py, the currency   *)
(* formatters, and the Flask request handlers of app.py, run_app.py and    *)
(* simple_app.py.                                                          *)
(*                                                                         *)
(* Text is a sequence of lexemes (strings).  The four delimiters of the    *)
(* template language are lexemes of their own, so that "the output holds   *)
(* template syntax" is a property of the lexeme sequence.  Long literal    *)
(* text of the source is abbreviated; every tag of a modelled template is  *)
(* kept, in order.                                                         *)
(***************************************************************************)
EXTENDS Integers, Sequences, FiniteSets, TLC

\* ------------------------------------------------------------------ bounds

\* The wall clock takes the values 0..MaxClock.
MaxClock == 1

\* A damaged template source lacks one token of its first or of its last
\* MaxCuts tags.
MaxCuts == 1

\* The sequence f[1], ..., f[n], enumerated.
Tuple(f, n) == SubSeq(f, 1, n)

\* ------------------------------------------------------------------ values

\* Python values, tagged; each tag has its own field so that values of
\* different types compare unequal.
VStr(lexemes) == [t |-> "str", s |-> lexemes]
VTxt(s) == [t |-> "str", s |-> <<s>>]
VInt(n) == [t |-> "int", n |-> n]
VBool(b) == [t |-> "bool", b |-> b]
VList(l) == [t |-> "list", l |-> l]
\* A dict keeps its keys in insertion order: ks is the key order, m the map.
VDict(ks, m) == [t |-> "dict", ks |-> ks, m |-> m]
\* datetime: a date and the minute of its day.
VDateTime(y, mo, d, mi) == [t |-> "datetime", y |-> y, mo |-> mo, d |-> d, mi |-> mi]
\* A float: num / den, den positive.  A decimal literal is taken to be the
\* number it writes.
VFloat(num, den) == [t |-> "float", num |-> num, den |-> den]
Undefined == [t |-> "undefined"]
None == [t |-> "none"]

Delims == {"{{", "}}", "{%", "%}"}

\* The text holds a delimiter of the template language.
HasTemplateSyntax(lexemes) == \E i \in 1..Len(lexemes) : lexemes[i] \in Delims

\* bool(v) of Python, with jinja2's Undefined false.
Truthy(v) ==
  CASE v.t = "str" -> v.s # <<>>
    [] v.t = "int" -> v.n # 0
    [] v.t = "bool" -> v.b
    [] v.t = "float" -> v.num # 0
    [] v.t = "list" -> v.l # <<>>
    [] v.t = "dict" -> v.ks # <<>>
    [] v.t = "datetime" -> TRUE
    [] OTHER -> FALSE

MonthName ==
  <<"January", "February", "March", "April", "May", "June", "July",
    "August", "September", "October", "November", "December">>

TwoDigits(n) == IF n < 10 THEN "0" \o ToString(n) ELSE ToString(n)

\* datetime.strftime for the two formats the templates use.
StrfTime(dt, fmt) ==
  LET date == <<MonthName[dt.mo], " ", TwoDigits(dt.d), ", ", ToString(dt.y)>>
      h24 == dt.mi \div 60
      h12 == IF h24 % 12 = 0 THEN 12 ELSE h24 % 12
      time == <<TwoDigits(h12), ":", TwoDigits(dt.mi % 60), " ",
                IF h24 < 12 THEN "AM" ELSE "PM">>
  IN  CASE fmt = "%B %d, %Y" -> date
        [] fmt = "%B %d, %Y at %I:%M %p" -> date \o <<" at ">> \o time
        [] fmt = "%Y-%m-%d %H:%M:%S" ->
             \* the clock is read to the minute
             <<ToString(dt.y), "-", TwoDigits(dt.mo), "-", TwoDigits(dt.d), " ",
               TwoDigits(h24), ":", TwoDigits(dt.mi % 60), ":", "00">>
        [] OTHER -> <<fmt>>

\* str(v): what {{ v }} writes.  str(Undefined) is the empty string.
ToText(v) ==
  CASE v.t = "str" -> v.s
    [] v.t = "int" -> <<ToString(v.n)>>
    [] v.t = "bool" -> IF v.b THEN <<"True">> ELSE <<"False">>
    [] v.t = "none" -> <<"None">>
    [] v.t = "float" ->
         \* repr of a float that has one or two decimals
         IF v.den = 10 THEN <<ToString(v.num \div 10), ".", ToString(v.num % 10)>>
         ELSE IF v.den = 100
         THEN <<ToString(v.num \div 100), ".", TwoDigits(v.num % 100)>>
         ELSE <<ToString(v.num \div v.den), ".", "...">>
    [] v.t = "datetime" ->
         <<ToString(v.y), "-", TwoDigits(v.mo), "-", TwoDigits(v.d), " ",
           TwoDigits(v.mi \div 60), ":", TwoDigits(v.mi % 60)>>
    [] v.t = "undefined" -> <<>>
    [] OTHER -> <<"<", v.t, ">">>

\* The result of evaluating an expression or rendering nodes: a value (or
\* text), or the exception raised.
Ok(v) == [v |-> v, exc |-> ""]
Raise(x) == [v |-> Undefined, exc |-> x]

\* ------------------------------------------------------------- expressions

Name(n) == [e |-> "name", n |-> n]
Attr(of, a) == [e |-> "attr", of |-> of, a |-> a]
CallG(n) == [e |-> "callg", n |-> n]
CallM(of, m, arg) == [e |-> "callm", of |-> of, m |-> m, arg |-> arg]
Flt(of, f, arg) == [e |-> "filter", of |-> of, f |-> f, arg |-> arg]
Not(of) == [e |-> "not", of |-> of]
Const(v) == [e |-> "const", v |-> v]
\* of[i]
Item(of, i) == [e |-> "item", of |-> of, i |-> i]
\* a / b
Div(a, b) == [e |-> "div", a |-> a, b |-> b]
\* range(of)
Range(of) == [e |-> "range", of |-> of]

\* ------------------------------------------------------- money formatting

\* The whole parts of the amounts tried have up to MaxDigits digits.
MaxDigits == 7
\* The cents tried: the quarters, the ties of an eighth, and the MaxEdge
\* cents next to each whole amount.
MaxEdge == 1

\* A number: (-1)^neg * (d + f/800), whole part d and f eight-hundredths
\* (an int or a bool has f = 0); or an infinity; or nan.
Finite(neg, d, f) == [k |-> "finite", neg |-> neg, d |-> d, f |-> f]
Inf(neg) == [k |-> "inf", neg |-> neg, d |-> 0, f |-> 0]
NaN == [k |-> "nan", neg |-> FALSE, d |-> 0, f |-> 0]

RECURSIVE Pow10(_)
Pow10(k) == IF k = 0 THEN 1 ELSE 10 * Pow10(k - 1)

Dollars ==
  {0} \cup {Pow10(k) : k \in 0..(MaxDigits - 1)} \cup {Pow10(k) - 1 : k \in 1..MaxDigits}
  \cup {1234567 \div Pow10(k) : k \in 0..6}
CentsTried == {c \in 0..99 : c % 25 \in {0, 12} \/ c <= MaxEdge \/ c >= 99 - MaxEdge}
\* A float that lies halfway between two cents is tried only where it is
\* that value exactly, which is at the multiples of an eighth.
Fractions ==
  {f \in {8 * c + e : c \in CentsTried, e \in 0..7} : f % 8 # 4 \/ f % 100 = 0}
Amounts ==
  {Finite(neg, d, f) : neg \in BOOLEAN, d \in Dollars, f \in Fractions}
  \cup {Inf(FALSE), Inf(TRUE), NaN}

\* The decimal digits of a natural number.
RECURSIVE Digits(_)
Digits(n) == IF n < 10 THEN <<ToString(n)>> ELSE Digits(n \div 10) \o <<ToString(n % 10)>>

\* The ',' option: a comma before every three digits, from the right.
RECURSIVE Grouped(_)
Grouped(digs) ==
  IF Len(digs) <= 3 THEN digs
  ELSE Grouped(SubSeq(digs, 1, Len(digs) - 3)) \o <<",">>
       \o SubSeq(digs, Len(digs) - 2, Len(digs))

\* f eight-hundredths in cents, rounded to the nearest cent and, halfway, to
\* the even one: float formatting rounds the exact value correctly.
RoundedCents(f) ==
  LET c == f \div 8
      e == f % 8
  IN  c + (IF e > 4 \/ (e = 4 /\ c % 2 = 1) THEN 1 ELSE 0)

\* format(value, '.2f'), with the ',' option when grouping.
FormatFixed(value, grouping) ==
  LET sign == IF value.neg THEN <<"-">> ELSE <<>>
      cents == RoundedCents(value.f)
      whole == Digits(value.d + (IF cents = 100 THEN 1 ELSE 0))
  IN  CASE value.k = "nan" -> <<"n", "a", "n">>
        [] value.k = "inf" -> sign \o <<"i", "n", "f">>
        [] OTHER ->
             sign \o (IF grouping THEN Grouped(whole) ELSE whole) \o <<".">>
             \o <<ToString((cents % 100) \div 10), ToString(cents % 10)>>

\* format(value, ',.2f')
FormatPlain(value) == FormatFixed(value, FALSE)
FormatGrouped(value) == FormatFixed(value, TRUE)

\* app.py: currency_filter(value) is f"${value:,.2f}".
currency_filter(value) == <<"$">> \o FormatGrouped(value)
\* jinja2-example.py: format_currency(value) is f"${value:,.2f}".
format_currency(value) == <<"$">> \o FormatGrouped(value)
\* word-document-generator.py, prepare_contract_context:
\* 'total_amount': f"${contract_data['amount']:,.2f}".
total_amount(contract_data) == <<"$">> \o FormatGrouped(contract_data.amount)

\* ----------------------------------------------------------------- filters

\* datetime.fromisoformat on a date string 'YYYY-MM-DD' (lexemes year, "-",
\* month, "-", day); anything else is a ValueError.
IsIsoDate(s) ==
  /\ Len(s) = 5 /\ s[2] = "-" /\ s[4] = "-"
  /\ \E y \in 1990..2030 : ToString(y) = s[1]
  /\ \E mo \in 1..12 : TwoDigits(mo) = s[3]
  /\ \E d \in 1..31 : TwoDigits(d) = s[5]

FromIsoFormat(s) ==
  VDateTime(CHOOSE y \in 1990..2030 : ToString(y) = s[1],
            CHOOSE mo \in 1..12 : TwoDigits(mo) = s[3],
            CHOOSE d \in 1..31 : TwoDigits(d) = s[5], 0)

\* format_date(value, format='%B %d, %Y') of jinja2-example.py: a str is
\* parsed as an ISO date first; then value.strftime(format).  An Undefined
\* value has no strftime: jinja2 raises UndefinedError on the attribute.
format_date(value, format) ==
  LET fmt == IF format = None THEN "%B %d, %Y" ELSE format.s[1]
  IN  CASE value.t = "str" ->
             IF IsIsoDate(value.s)
             THEN Ok(VStr(StrfTime(FromIsoFormat(value.s), fmt)))
             ELSE Raise("ValueError")
        [] value.t = "datetime" -> Ok(VStr(StrfTime(value, fmt)))
        [] value.t = "undefined" -> Raise("UndefinedError")
        [] OTHER -> Raise("AttributeError")

\* len(v) where Python defines it; len(Undefined) is 0.
HasLen(v) == v.t \in {"str", "list", "dict", "undefined"}
PyLen(v) ==
  CASE v.t = "str" -> Len(v.s)
    [] v.t = "list" -> Len(v.l)
    [] v.t = "dict" -> Len(v.ks)
    [] OTHER -> 0

\* truncate_text(text, length=100) of jinja2-example.py.  The length of a
\* text is counted in lexemes.
truncate_text(text, length) ==
  LET n == IF length = None THEN 100 ELSE length.n
  IN  IF ~HasLen(text) THEN Raise("TypeError")
      ELSE IF PyLen(text) <= n THEN Ok(text)
      ELSE IF text.t = "str" THEN Ok(VStr(SubSeq(text.s, 1, n) \o <<"...">>))
      ELSE Raise("TypeError")

\* environment.getitem(obj, attr) / getattr: a dict's key, else Undefined.
GetItem(obj, a) ==
  IF obj.t = "dict" /\ a \in DOMAIN obj.m THEN obj.m[a] ELSE Undefined

\* environment.getattr on the value of an expression: Undefined has no
\* attributes, asking for one raises UndefinedError.
ChainableGetAttr(obj, a) == Ok(GetItem(obj, a))
GetAttr(obj, a) ==
  IF obj.t = "undefined" THEN Raise("UndefinedError") ELSE Ok(GetItem(obj, a))

\* The items a value yields when iterated, in order; Undefined yields none.
Iterable(v) == v.t \in {"list", "dict", "undefined"}
Items(v) ==
  CASE v.t = "list" -> v.l
    [] v.t = "dict" -> [i \in 1..Len(v.ks) |-> VTxt(v.ks[i])]
    [] OTHER -> <<>>

\* jinja2's selectattr(attr): the items whose attribute is true, and
\* selectattr(attr, 'equalto', value): those whose attribute is value.
do_selectattr(v, attr) ==
  IF ~Iterable(v) THEN Raise("TypeError")
  ELSE LET keep(x) == IF attr.t = "list"
                      THEN GetItem(x, attr.l[1].s[1]) = attr.l[3]
                      ELSE Truthy(GetItem(x, attr.s[1]))
       IN  Ok(VList(SelectSeq(Items(v), keep)))

\* Numbers and their arithmetic.
IsNumber(v) == v.t \in {"int", "float", "bool"}
Num(v) == CASE v.t = "int" -> v.n [] v.t = "float" -> v.num [] OTHER -> IF v.b THEN 1 ELSE 0
Den(v) == IF v.t = "float" THEN v.den ELSE 1
Plus(x, y) ==
  IF x.t # "float" /\ y.t # "float" THEN VInt(Num(x) + Num(y))
  ELSE IF Den(x) = Den(y) THEN VFloat(Num(x) + Num(y), Den(x))
  ELSE IF Den(x) = 1 THEN VFloat(Num(x) * Den(y) + Num(y), Den(y))
  ELSE IF Den(y) = 1 THEN VFloat(Num(x) + Num(y) * Den(x), Den(x))
  ELSE VFloat(Num(x) * Den(y) + Num(y) * Den(x), Den(x) * Den(y))
\* x / y: true division, a float.
Divide(x, y) ==
  IF x.t = "undefined" \/ y.t = "undefined" THEN Raise("UndefinedError")
  ELSE IF ~IsNumber(x) \/ ~IsNumber(y) THEN Raise("TypeError")
  ELSE IF Num(y) = 0 THEN Raise("ZeroDivisionError")
  ELSE IF Num(y) > 0 THEN Ok(VFloat(Num(x) * Den(y), Den(x) * Num(y)))
  ELSE Ok(VFloat(-(Num(x) * Den(y)), -(Den(x) * Num(y))))

\* jinja2's sum(attribute=attr): 0 and the attribute of each item, added.
RECURSIVE SumItems(_, _, _)
SumItems(items, attr, acc) ==
  IF items = <<>> THEN Ok(acc)
  ELSE LET x == GetItem(items[1], attr)
       IN  IF x.t = "undefined" THEN Raise("UndefinedError")
           ELSE IF ~IsNumber(x) THEN Raise("TypeError")
           ELSE SumItems(Tail(items), attr, Plus(acc, x))
do_sum(v, attr) ==
  IF ~Iterable(v) THEN Raise("TypeError") ELSE SumItems(Items(v), attr.s[1], VInt(0))

\* jinja2's map(attribute=attr).
do_map(v, attr) ==
  IF ~Iterable(v) THEN Raise("TypeError")
  ELSE Ok(VList([i \in 1..Len(Items(v)) |-> GetItem(Items(v)[i], attr.s[1])]))

\* jinja2's unique: the items, each at its first place.  (It compares
\* strings without case; no two of the texts that occur differ in case only.)
do_unique(v) ==
  IF ~Iterable(v) THEN Raise("TypeError")
  ELSE LET l == Items(v)
           first(i) == \A j \in 1..(i - 1) : l[j] # l[i]
           idx == SelectSeq(Tuple([i \in 1..Len(l) |-> i], Len(l)), first)
       IN  Ok(VList(Tuple([k \in 1..Len(idx) |-> l[idx[k]]], Len(idx))))

\* The number a value is, as the money formatters take it: the whole part
\* and the eight-hundredths that round as the rest does.
AsAmount(v) ==
  LET n == IF Num(v) < 0 THEN -Num(v) ELSE Num(v)
      rest == n % Den(v)
      cents == (rest * 100) \div Den(v)
      left == (rest * 100) % Den(v)
      e == IF left = 0 THEN 0 ELSE IF 2 * left < Den(v) THEN 1
           ELSE IF 2 * left = Den(v) THEN 4 ELSE 5
  IN  Finite(Num(v) < 0, n \div Den(v), 8 * cents + e)

RECURSIVE JoinText(_, _)
JoinText(items, sep) ==
  IF items = <<>> THEN <<>>
  ELSE IF Len(items) = 1 THEN ToText(items[1])
  ELSE ToText(items[1]) \o sep \o JoinText(Tail(items), sep)

\* The built-in filters the modelled templates use, by implementation name.
ApplyFilter(impl, v, arg) ==
  CASE impl = "do_length" ->
         IF HasLen(v) THEN Ok(VInt(PyLen(v))) ELSE Raise("TypeError")
    [] impl = "do_list" ->
         IF Iterable(v) THEN Ok(VList(Items(v))) ELSE Raise("TypeError")
    [] impl = "do_selectattr" -> do_selectattr(v, arg)
    [] impl = "do_join" ->
         IF Iterable(v)
         THEN Ok(VStr(JoinText(Items(v), IF arg = None THEN <<>> ELSE arg.s)))
         ELSE Raise("TypeError")
    [] impl = "do_default" -> Ok(IF v.t = "undefined" THEN arg ELSE v)
    [] impl = "do_sum" -> do_sum(v, arg)
    [] impl = "do_map" -> do_map(v, arg)
    [] impl = "do_unique" -> do_unique(v)
    [] impl = "format_currency" ->
         IF IsNumber(v) THEN Ok(VStr(format_currency(AsAmount(v))))
         ELSE IF v.t = "str" THEN Raise("ValueError")
         ELSE Raise("TypeError")
    [] impl = "format_date" -> format_date(v, arg)
    [] impl = "truncate_text" -> truncate_text(v, arg)
    [] OTHER -> Raise("NotImplemented")

\* ------------------------------------------------------------- evaluation

\* datetime.now() at wall-clock reading c.
Now(c) == VDateTime(2025, 11, 5, 600 + c)

\* An environment: its filter registry, the names of its callable globals
\* and the wall clock its globals read.
Env(filters, globals, clock) == [filters |-> filters, globals |-> globals, clock |-> clock]

\* The value of an expression in a context.  A name the context lacks is
\* Undefined (the default policy, jinja2.Undefined: nothing in the source
\* passes undefined=); an attribute or a call of Undefined raises.
RECURSIVE Eval(_, _, _)
Eval(e, ctx, env) ==
  CASE e.e = "name" -> Ok(IF e.n \in DOMAIN ctx THEN ctx[e.n] ELSE Undefined)
    [] e.e = "const" -> Ok(e.v)
    [] e.e = "attr" ->
         LET r == Eval(e.of, ctx, env)
         IN  IF r.exc # "" THEN r ELSE GetAttr(r.v, e.a)
    [] e.e = "callg" ->
         IF e.n \in DOMAIN ctx THEN Raise("TypeError")
         ELSE IF e.n = "now" /\ e.n \in env.globals THEN Ok(Now(env.clock))
         ELSE Raise("UndefinedError")
    [] e.e = "callm" ->
         LET r == Eval(e.of, ctx, env)
         IN  IF r.exc # "" THEN r
             ELSE IF r.v.t = "datetime" /\ e.m = "strftime"
                  THEN Ok(VStr(StrfTime(r.v, e.arg)))
             ELSE IF r.v.t = "dict" /\ e.m = "keys"
                  THEN Ok(VList(Items(r.v)))
             ELSE IF r.v.t = "dict" /\ e.m = "items"
                  THEN Ok(VList([i \in 1..Len(r.v.ks) |->
                                   VList(<<VTxt(r.v.ks[i]), r.v.m[r.v.ks[i]]>>)]))
             ELSE Raise("UndefinedError")
    [] e.e = "filter" ->
         LET r == Eval(e.of, ctx, env)
         IN  IF r.exc # "" THEN r
             ELSE ApplyFilter(env.filters[e.f], r.v, e.arg)
    [] e.e = "not" ->
         LET r == Eval(e.of, ctx, env)
         IN  IF r.exc # "" THEN r ELSE Ok(VBool(~Truthy(r.v)))
    [] e.e = "item" ->
         LET r == Eval(e.of, ctx, env)
         IN  IF r.exc # "" THEN r
             ELSE IF r.v.t = "undefined" THEN Raise("UndefinedError")
             ELSE IF r.v.t = "list" /\ e.i + 1 \in 1..Len(r.v.l) THEN Ok(r.v.l[e.i + 1])
             ELSE Ok(Undefined)
    [] e.e = "div" ->
         LET a == Eval(e.a, ctx, env)
             b == Eval(e.b, ctx, env)
         IN  IF a.exc # "" THEN a ELSE IF b.exc # "" THEN b ELSE Divide(a.v, b.v)
    [] e.e = "range" ->
         LET r == Eval(e.of, ctx, env)
         IN  IF r.exc # "" THEN r
             ELSE IF r.v.t = "int"
             THEN Ok(VList([i \in 1..r.v.n |-> VInt(i - 1)]))
             ELSE Raise("TypeError")

\* ------------------------------------------------------------------ nodes

TextNode(s) == [k |-> "text", s |-> s]
OutNode(e) == [k |-> "out", e |-> e]
IfNode(c, a, b) == [k |-> "if", c |-> c, a |-> a, b |-> b]
ForNode(var, iter, body) == [k |-> "for", var |-> var, iter |-> iter, body |-> body]
BlockNode(name, body) == [k |-> "block", name |-> name, body |-> body]
ExtendsNode(parent) == [k |-> "extends", parent |-> parent]

\* The rendering of nodes: text, or the exception raised.
Out(text) == [out |-> text, exc |-> ""]
Fail(x) == [out |-> <<>>, exc |-> x]

\* The loop variable of iteration i of n.
\* The loop variable whose last is never set.
LoopVarEndless(i, n) ==
  VDict(<<"index", "first", "last">>,
        [index |-> VInt(i), first |-> VBool(i = 1), last |-> VBool(FALSE)])
LoopVar(i, n) ==
  VDict(<<"index", "first", "last">>,
        [index |-> VInt(i), first |-> VBool(i = 1), last |-> VBool(i = n)])

\* The block a {% block %} tag renders: the first of context.blocks[name],
\* where the child's blocks come before the parent's.
ParentWinsBlock(node, blocks) == node.body
ResolveBlock(node, blocks) ==
  IF node.name \in DOMAIN blocks THEN blocks[node.name] ELSE node.body

\* The names a for statement binds at an item: the item to its one
\* target, or the two parts of the item to 'key, value'.
Bind(var, item) ==
  IF var = "key, value"
  THEN ("key" :> item.l[1]) @@ ("value" :> item.l[2])
  ELSE var :> item

RECURSIVE RenderNodes(_, _, _, _)
RECURSIVE RenderLoop(_, _, _, _, _, _)
\* One node.
RenderNode(n, ctx, env, blocks) ==
  CASE n.k = "text" -> Out(<<n.s>>)
    [] n.k = "out" ->
         LET r == Eval(n.e, ctx, env)
         IN  IF r.exc # "" THEN Fail(r.exc) ELSE Out(ToText(r.v))
    [] n.k = "if" ->
         LET r == Eval(n.c, ctx, env)
         IN  IF r.exc # "" THEN Fail(r.exc)
             ELSE IF Truthy(r.v) THEN RenderNodes(n.a, ctx, env, blocks)
             ELSE RenderNodes(n.b, ctx, env, blocks)
    [] n.k = "for" ->
         LET r == Eval(n.iter, ctx, env)
         IN  IF r.exc # "" THEN Fail(r.exc)
             ELSE IF ~Iterable(r.v) THEN Fail("TypeError")
             ELSE RenderLoop(n, Items(r.v), 1, ctx, env, blocks)
    [] n.k = "block" ->
         RenderNodes(ResolveBlock(n, blocks), ctx, env, blocks)
    [] OTHER -> Out(<<>>)

\* The nodes in their order, up to the first that raises: the first half,
\* then the second.
RenderNodes(nodes, ctx, env, blocks) ==
  IF nodes = <<>> THEN Out(<<>>)
  ELSE IF Len(nodes) = 1 THEN RenderNode(nodes[1], ctx, env, blocks)
  ELSE
    LET half == Len(nodes) \div 2
        first == RenderNodes(SubSeq(nodes, 1, half), ctx, env, blocks)
    IN  IF first.exc # "" THEN first
        ELSE LET rest == RenderNodes(SubSeq(nodes, half + 1, Len(nodes)), ctx, env, blocks)
             IN  IF rest.exc # "" THEN rest ELSE Out(first.out \o rest.out)

RenderLoop(n, items, i, ctx, env, blocks) ==
  IF i > Len(items) THEN Out(<<>>)
  ELSE
    LET inner == Bind(n.var, items[i]) @@ ("loop" :> LoopVar(i, Len(items))) @@ ctx
        first == RenderNodes(n.body, inner, env, blocks)
    IN  IF first.exc # "" THEN first
        ELSE LET rest == RenderLoop(n, items, i + 1, ctx, env, blocks)
             IN  IF rest.exc # "" THEN rest ELSE Out(first.out \o rest.out)

\* ----------------------------------------------------------------- source

\* Template source, as the lexer sees it: data, the delimiters, and between
\* delimiters one expression or one statement.
D(s) == <<[k |-> "data", s |-> s]>>
VarBegin == [k |-> "vb"]
VarEnd == [k |-> "ve"]
BlockBegin == [k |-> "bb"]
BlockEnd == [k |-> "be"]
\* {{ e }}
V(e) == <<VarBegin, [k |-> "expr", e |-> e], VarEnd>>
\* {% statement %}
St(stmt) == <<BlockBegin, stmt, BlockEnd>>
If(c) == St([k |-> "stmt", n |-> "if", e |-> c])
Elif(c) == St([k |-> "stmt", n |-> "elif", e |-> c])
Else == St([k |-> "stmt", n |-> "else"])
EndIf == St([k |-> "stmt", n |-> "endif"])
For(var, iter) == St([k |-> "stmt", n |-> "for", var |-> var, e |-> iter])
EndFor == St([k |-> "stmt", n |-> "endfor"])
Block(name) == St([k |-> "stmt", n |-> "block", name |-> name])
EndBlock == St([k |-> "stmt", n |-> "endblock"])
Extends(parent) == St([k |-> "stmt", n |-> "extends", parent |-> parent])

\* An expression and a statement as they are written.
RECURSIVE ExprText(_)
ExprText(e) ==
  CASE e.e = "name" -> e.n
    [] e.e = "attr" -> ExprText(e.of) \o "." \o e.a
    [] e.e = "callg" -> e.n \o "()"
    [] e.e = "callm" -> ExprText(e.of) \o "." \o e.m \o "('" \o e.arg \o "')"
    [] e.e = "item" -> ExprText(e.of) \o "[" \o ToString(e.i) \o "]"
    [] e.e = "div" -> ExprText(e.a) \o " / " \o ExprText(e.b)
    [] e.e = "range" -> "range(" \o ExprText(e.of) \o ")"
    [] e.e = "filter" -> ExprText(e.of) \o "|" \o e.f
    [] e.e = "not" -> "not " \o ExprText(e.of)
    [] OTHER -> "literal"

StmtText(st) ==
  CASE st.n \in {"if", "elif"} -> st.n \o " " \o ExprText(st.e)
    [] st.n = "for" -> "for " \o st.var \o " in " \o ExprText(st.e)
    [] st.n = "block" -> "block " \o st.name
    [] st.n = "extends" -> "extends \"" \o st.parent \o "\""
    [] OTHER -> st.n

\* The text a token is when it stands where data is read: outside an opened
\* tag everything is data, a closing delimiter too.
DataText(t) ==
  CASE t.k = "data" -> t.s
    [] t.k = "ve" -> "}}"
    [] t.k = "be" -> "%}"
    [] t.k = "expr" -> ExprText(t.e)
    [] t.k = "stmt" -> StmtText(t)
    [] t.k = "vb" -> "{{"
    [] OTHER -> "{%"

\* ------------------------------------------------------------------ parser

\* A whole tag starts at i: the opening delimiter, what it holds, and the
\* closing delimiter.
IsTagStart(toks, i) ==
  /\ i + 2 <= Len(toks)
  /\ \/ toks[i].k = "vb" /\ toks[i + 1].k = "expr" /\ toks[i + 2].k = "ve"
     \/ toks[i].k = "bb" /\ toks[i + 1].k = "stmt" /\ toks[i + 2].k = "be"

InTag(toks, i) ==
  \/ IsTagStart(toks, i)
  \/ i > 1 /\ IsTagStart(toks, i - 1)
  \/ i > 2 /\ IsTagStart(toks, i - 2)

\* An opening delimiter that no expression or statement and closing
\* delimiter follow: "unexpected end of template", "expected token 'end of
\* print statement'", "tag name expected".
Unclosed(toks) == \E i \in 1..Len(toks) : toks[i].k \in {"vb", "bb"} /\ ~IsTagStart(toks, i)

\* The lexer's result: text, {{ }} outputs and statements, in order.
Lex(toks) ==
  LET here(i) == IsTagStart(toks, i) \/ ~InTag(toks, i)
      pos == SelectSeq([i \in 1..Len(toks) |-> i], here)
      item(i) == CASE IsTagStart(toks, i) /\ toks[i].k = "vb" -> OutNode(toks[i + 1].e)
                   [] IsTagStart(toks, i) /\ toks[i].k = "bb" -> toks[i + 1]
                   [] OTHER -> TextNode(DataText(toks[i]))
  IN  Tuple([j \in 1..Len(pos) |-> item(pos[j])], Len(pos))

Opens(it) == it.k = "stmt" /\ it.n \in {"if", "for", "block"}
Closes(it) == it.k = "stmt" /\ it.n \in {"endif", "endfor", "endblock"}
Separates(it) == it.k = "stmt" /\ it.n \in {"elif", "else"}
EndTag(n) == CASE n = "if" -> "endif" [] n = "for" -> "endfor" [] n = "block" -> "endblock"
               [] OTHER -> ""

Max(S) == CHOOSE x \in S : \A y \in S : y <= x
Min(S) == CHOOSE x \in S : \A y \in S : x <= y

\* What the parser knows of the items: where statements open and end, and
\* dep, the number of statements open before each item and after the last.
Table(items) ==
  LET opens == {i \in 1..Len(items) : Opens(items[i])}
      closes == {i \in 1..Len(items) : Closes(items[i])}
  IN  [items |-> items, opens |-> opens, closes |-> closes,
       blocks |-> {i \in opens : items[i].n = "block"},
       dep |-> Tuple([j \in 1..(Len(items) + 1) |->
                        Cardinality({i \in opens : i < j}) - Cardinality({i \in closes : i < j})],
                     Len(items) + 1)]

\* The statement that item j ends or divides: the last one opened before j
\* and not yet ended; 0 when there is none.
Opener(t, j) ==
  LET c == {i \in t.opens : i < j /\ t.dep[i] = t.dep[j] - 1}
  IN  IF c = {} THEN 0 ELSE Max(c)

\* jinja2's parser, at the level of tags: a statement reads nodes up to its
\* own end tag; an end tag no statement is waiting for is "Encountered
\* unknown tag", a statement the source ends in is "Unexpected end of
\* template", a block name used twice is an error as well.  (The sources
\* have no {% for %}...{% else %}.)
WellFormed(t) ==
  /\ t.dep[Len(t.items) + 1] = 0
  /\ \A j \in t.closes :
       /\ Opener(t, j) # 0
       /\ EndTag(t.items[Opener(t, j)].n) = t.items[j].n
  /\ \A j \in {i \in 1..Len(t.items) : Separates(t.items[i])} :
       /\ Opener(t, j) # 0
       /\ t.items[Opener(t, j)].n = "if"
       /\ ~\E s \in (Opener(t, j) + 1)..(j - 1) :
             /\ t.dep[s] = t.dep[j]
             /\ t.items[s].k = "stmt" /\ t.items[s].n = "else"
             /\ Opener(t, s) = Opener(t, j)
  /\ \A i, j \in t.blocks : i # j => t.items[i].name # t.items[j].name

\* The end tag of the statement opened at i.
CloseOf(t, i) == Min({c \in t.closes : c > i /\ t.dep[c] = t.dep[i] + 1})

\* The nodes of items a..b, which stand at depth d, of a well-formed source.
RECURSIVE Nodes(_, _, _, _)
RECURSIVE IfChain(_, _, _)
NodeAt(t, j) ==
  LET it == t.items[j]
  IN  CASE it.k # "stmt" -> it
        [] it.k = "stmt" /\ it.n = "extends" -> ExtendsNode(it.parent)
        [] it.k = "stmt" /\ it.n = "for" ->
             ForNode(it.var, it.e, Nodes(t, j + 1, CloseOf(t, j) - 1, t.dep[j] + 1))
        [] it.k = "stmt" /\ it.n = "block" ->
             BlockNode(it.name, Nodes(t, j + 1, CloseOf(t, j) - 1, t.dep[j] + 1))
        [] it.k = "stmt" /\ it.n = "if" -> IfChain(t, j, CloseOf(t, j))

Nodes(t, a, b, d) ==
  LET top(j) == t.dep[j] = d
      tops == SelectSeq(Tuple([k \in 1..(b - a + 1) |-> a + k - 1], b - a + 1), top)
  IN  Tuple([k \in 1..Len(tops) |-> NodeAt(t, tops[k])], Len(tops))

\* The If node whose test is at s (an if or an elif) and whose endif is at c.
IfChain(t, s, c) ==
  LET seps == {j \in (s + 1)..(c - 1) : t.dep[j] = t.dep[c] /\ Separates(t.items[j])}
      nxt == IF seps = {} THEN c ELSE Min(seps)
  IN  IfNode(t.items[s].e,
             Nodes(t, s + 1, nxt - 1, t.dep[c]),
             IF nxt = c THEN <<>>
             ELSE IF t.items[nxt].n = "else" THEN Nodes(t, nxt + 1, c - 1, t.dep[c])
             ELSE <<IfChain(t, nxt, c)>>)

\* The filter names an expression and nodes use.
RECURSIVE ExprFilters(_)
ExprFilters(e) ==
  CASE e.e = "filter" -> {e.f} \cup ExprFilters(e.of)
    [] e.e \in {"attr", "callm", "not", "item", "range"} -> ExprFilters(e.of)
    [] e.e = "div" -> ExprFilters(e.a) \cup ExprFilters(e.b)
    [] OTHER -> {}

RECURSIVE NodeFilters(_)
NodeFilters(nodes) ==
  IF nodes = <<>> THEN {}
  ELSE LET n == Head(nodes)
           here == CASE n.k = "out" -> ExprFilters(n.e)
                     [] n.k = "if" -> ExprFilters(n.c) \cup NodeFilters(n.a) \cup NodeFilters(n.b)
                     [] n.k = "for" -> ExprFilters(n.iter) \cup NodeFilters(n.body)
                     [] n.k = "block" -> NodeFilters(n.body)
                     [] OTHER -> {}
       IN  here \cup NodeFilters(Tail(nodes))

\* A compiled template, or the error its construction raises.
Compiled(nodes) == [nodes |-> nodes, err |-> ""]
NotCompiled(x) == [nodes |-> <<>>, err |-> x]

\* Template(source) / env.from_string(source): the source is parsed and
\* compiled at once; a filter the registry lacks is a TemplateAssertionError,
\* which is a TemplateSyntaxError.
CompileUnchecked(source, filters) ==
  LET flat(it) == it.k \in {"text", "out"}
  IN  Compiled(SelectSeq(Lex(source), flat))
Compile(source, filters) ==
  LET t == Table(Lex(source))
      nodes == Nodes(t, 1, Len(t.items), 0)
  IN  IF Unclosed(source) \/ ~WellFormed(t) THEN NotCompiled("TemplateSyntaxError")
      ELSE IF ~(NodeFilters(nodes) \subseteq DOMAIN filters)
           THEN NotCompiled("TemplateSyntaxError")
      ELSE Compiled(nodes)

\* ------------------------------------------------------------ inheritance

\* The top-level blocks of a template, by name.
BlockNames(nodes) == {nodes[i].name : i \in {j \in 1..Len(nodes) : nodes[j].k = "block"}}
BlocksOf(nodes) ==
  [b \in BlockNames(nodes) |->
     nodes[CHOOSE i \in 1..Len(nodes) : nodes[i].k = "block" /\ nodes[i].name = b].body]

\* The index of the first top-level {% extends %}, or 0.
ExtendsAt(nodes) ==
  IF \E i \in 1..Len(nodes) : nodes[i].k = "extends"
  THEN CHOOSE i \in 1..Len(nodes) :
         /\ nodes[i].k = "extends"
         /\ \A j \in 1..(i - 1) : nodes[j].k # "extends"
  ELSE 0

\* template.render(**ctx): the root render function.  What stands before
\* {% extends %} is written; at {% extends %} the parent is loaded through
\* the environment's loader (files: the templates the loader finds, by
\* name), TemplateNotFound when it finds none; nothing after it is written
\* at top level, and the parent's root render function runs with the
\* child's blocks in front of its own.
RenderTemplate(nodes, ctx, env, files) ==
  LET x == ExtendsAt(nodes)
  IN  IF x = 0 THEN RenderNodes(nodes, ctx, env, <<>>)
      ELSE
        LET before == RenderNodes(SubSeq(nodes, 1, x - 1), ctx, env, <<>>)
            name == nodes[x].parent
        IN  IF before.exc # "" THEN before
            ELSE IF name \notin DOMAIN files THEN Fail("TemplateNotFound")
            ELSE
              LET parent == Compile(files[name], env.filters)
              IN  IF parent.err # "" THEN Fail(parent.err)
                  ELSE LET body == RenderNodes(parent.nodes, ctx, env, BlocksOf(nodes))
                       IN  IF body.exc # "" THEN body
                           ELSE Out(before.out \o body.out)

\* ---------------------------------------------------------------- sources

\* simple_demo.py, basic_template.
basic_template ==
  D("\nHello ") \o V(Name("name")) \o D("!\n\nWelcome to ") \o V(Name("company"))
  \o D(". Your account has been ") \o V(Name("status"))
  \o D(".\n\nAccount Details:\n- Username: ") \o V(Name("username"))
  \o D("\n- Email: ") \o V(Name("email")) \o D("\n- Joined: ")
  \o V(CallM(Name("joined_date"), "strftime", "%B %d, %Y")) \o D("\n")

\* simple_demo.py, basic_data, built when main runs at wall-clock reading c.
basic_data(c) ==
  [name |-> VTxt("Alice Johnson"), company |-> VTxt("TechCorp Solutions"),
   status |-> VTxt("activated"), username |-> VTxt("alice_j"),
   email |-> VTxt("alice.johnson@techcorp.com"), joined_date |-> Now(c)]

\* comprehensive_demo.py, email_template.
email_template ==
  D("\nSubject: ") \o V(Name("subject")) \o D("\n\nDear ")
  \o V(Attr(Name("recipient"), "name")) \o D(",\n\n") \o V(Name("greeting"))
  \o D("\n\n") \o V(Name("content")) \o D("\n\n")
  \o If(Name("offer"))
  \o D("\nSpecial Offer: ") \o V(Attr(Name("offer"), "description"))
  \o D("\n   Discount: ") \o V(Attr(Name("offer"), "discount"))
  \o D("%\n   Valid until: ")
  \o V(CallM(Attr(Name("offer"), "expiry_date"), "strftime", "%B %d, %Y")) \o D("\n")
  \o EndIf \o D("\n\n")
  \o If(Name("signature")) \o D("\n") \o V(Name("signature")) \o D("\n") \o EndIf
  \o D("\n\nBest regards,\n") \o V(Attr(Name("sender"), "name")) \o D("\n")
  \o V(Attr(Name("sender"), "title")) \o D("\n")
  \o V(Attr(Name("sender"), "company")) \o D("\n")
  \o V(Attr(Name("sender"), "contact"))
  \o D("\n\n---\nThis email was generated automatically using template generation technology.\n")
  \o If(Name("unsubscribe_link")) \o D("\nUnsubscribe: ")
  \o V(Name("unsubscribe_link")) \o D("\n") \o EndIf \o D("\n")

\* comprehensive_demo.py, email_data.  The values of content and of
\* unsubscribe_link hold template syntax of their own; expiry_date is
\* datetime.now().replace(day=15).
email_data(c) ==
  [subject |-> VTxt("Welcome to TechCorp Solutions!"),
   recipient |-> VDict(<<"name", "email">>,
                       [name |-> VTxt("Alice Johnson"), email |-> VTxt("alice@example.com")]),
   greeting |-> VTxt("Welcome to our platform! We're excited to have you on board."),
   content |-> VStr(<<"\nThank you for joining TechCorp Solutions. [...] Registration Date: ",
                      "{{", " recipient.registration_date.strftime('%B %d, %Y') ", "}}",
                      "\n- Account Type: Premium [...]\n">>),
   offer |-> VDict(<<"description", "discount", "expiry_date">>,
                   [description |-> VTxt("First Month Free Premium Access"),
                    discount |-> VInt(100),
                    expiry_date |-> [Now(c) EXCEPT !.d = 15]]),
   signature |-> VTxt("We look forward to your success with our platform!"),
   sender |-> VDict(<<"name", "title", "company", "contact">>,
                    [name |-> VTxt("Sarah Wilson"),
                     title |-> VTxt("Customer Success Manager"),
                     company |-> VTxt("TechCorp Solutions"),
                     contact |-> VTxt("sarah.wilson@techcorp.com | (555) 123-4567")]),
   unsubscribe_link |-> VStr(<<"https://techcorp.com/unsubscribe?email=",
                               "{{", " recipient.email ", "}}">>)]

\* jinja2-example.py, base_template: five blocks, of which footer alone has
\* content, and the one expression now().strftime(...).
base_footer == "\n            <p>&copy; 2025 Template Generation Book. All rights reserved.</p>\n            "
base_template ==
  D("\n<!DOCTYPE html>[...]<title>") \o Block("title") \o EndBlock
  \o D("</title>\n    <style>[...]</style>\n    ") \o Block("extra_css") \o EndBlock
  \o D("\n</head>\n<body>[...]<h1>") \o Block("header") \o EndBlock
  \o D("</h1>\n            <p>Generated on ")
  \o V(CallM(CallG("now"), "strftime", "%B %d, %Y at %I:%M %p"))
  \o D("</p>\n        </header>\n        <main>\n            ")
  \o Block("content") \o EndBlock
  \o D("\n        </main>\n        <footer class=\"footer\">\n            ")
  \o Block("footer") \o D(base_footer) \o EndBlock
  \o D("\n        </footer>\n    </div>\n</body>\n</html>\n")

\* jinja2-example.py, user_list_template.
user_card ==
  D("\n            <div class=\"card\">\n                <h3>") \o V(Attr(Name("user"), "name"))
  \o D("</h3>[...]Email:</strong> ") \o V(Attr(Name("user"), "email"))
  \o D("</p>[...]Role:</strong> ") \o V(Attr(Name("user"), "role"))
  \o D("</p>[...]Department:</strong> ") \o V(Attr(Name("user"), "department"))
  \o D("</p>[...]Joined:</strong> ")
  \o V(Flt(Attr(Name("user"), "joined_date"), "date", None)) \o D("</p>\n                ")
  \o If(Attr(Name("user"), "is_admin")) \o D("[...]<span class=\"badge\">Admin</span>[...]")
  \o EndIf \o D("\n                ")
  \o If(Not(Attr(Name("user"), "is_active"))) \o D("[...]Inactive</span>[...]")
  \o EndIf \o D("\n                ")
  \o If(Attr(Name("user"), "skills")) \o D("[...]Skills:</strong></p>[...]<ul>[...]")
  \o For("skill", Attr(Name("user"), "skills"))
  \o D("[...]<li>") \o V(Name("skill")) \o D("</li>[...]") \o EndFor
  \o D("[...]</ul>[...]") \o EndIf \o D("\n            </div>\n        ")

no_users_card == "\n    <div class=\"card\">\n        <p>No users found.</p>\n    </div>\n"

user_list_template ==
  D("\n") \o Extends("base.html") \o D("\n\n")
  \o Block("title") \o D("User Directory") \o EndBlock \o D("\n\n")
  \o Block("header") \o D("User Directory") \o EndBlock \o D("\n\n")
  \o Block("content")
  \o D("\n<div class=\"stats card\">[...]Total Users:</strong> ")
  \o V(Flt(Name("users"), "length", None))
  \o D("</p>[...]Admins:</strong> ")
  \o V(Flt(Flt(Flt(Name("users"), "selectattr", VTxt("is_admin")), "list", None), "length", None))
  \o D("</p>[...]Active Users:</strong> ")
  \o V(Flt(Flt(Flt(Name("users"), "selectattr", VTxt("is_active")), "list", None), "length", None))
  \o D("</p>[...]Last Updated:</strong> ")
  \o V(Flt(Name("last_updated"), "date", None)) \o D("</p>\n</div>\n\n")
  \o If(Name("users")) \o D("\n    <div class=\"grid\">\n        ")
  \o For("user", Name("users")) \o user_card \o EndFor
  \o D("\n    </div>\n") \o Else \o D(no_users_card) \o EndIf
  \o D("\n") \o EndBlock \o D("\n")

\* jinja2-example.py, user_data; last_updated is datetime.now() when the
\* module is imported, at wall-clock reading c.
User(name, email, role, department, joined, admin, active, skills) ==
  VDict(<<"name", "email", "role", "department", "joined_date", "is_admin", "is_active", "skills">>,
        [name |-> VTxt(name), email |-> VTxt(email), role |-> VTxt(role),
         department |-> VTxt(department), joined_date |-> VStr(joined),
         is_admin |-> VBool(admin), is_active |-> VBool(active),
         skills |-> VList([i \in 1..Len(skills) |-> VTxt(skills[i])])])

user_data(c) ==
  [users |-> VList(<<
     User("Alice Johnson", "alice@company.com", "Senior Developer", "Engineering",
          <<"2023", "-", "01", "-", "15">>, TRUE, TRUE,
          <<"Python", "JavaScript", "React", "Django">>),
     User("Bob Smith", "bob@company.com", "Product Manager", "Product",
          <<"2022", "-", "08", "-", "20">>, FALSE, TRUE,
          <<"Product Strategy", "User Research", "Agile">>),
     User("Carol Davis", "carol@company.com", "UX Designer", "Design",
          <<"2023", "-", "03", "-", "10">>, FALSE, FALSE,
          <<"UI/UX Design", "Figma", "Prototyping">>) >>),
   last_updated |-> Now(c)]

\* simple_demo.py, list_template (section 3); the emoji of its heading is
\* left out.
list_template ==
  D("\nEmail Campaign Recipients:\n\n")
  \o For("recipient", Name("recipients"))
  \o D("\n") \o V(Attr(Name("loop"), "index")) \o D(". ")
  \o V(Attr(Name("recipient"), "name")) \o D(" <")
  \o V(Attr(Name("recipient"), "email")) \o D(">\n   Status: ")
  \o V(Attr(Name("recipient"), "status")) \o D("\n   ")
  \o If(Attr(Name("recipient"), "tags")) \o D("\n   Tags: ")
  \o V(Flt(Attr(Name("recipient"), "tags"), "join", VTxt(", "))) \o D("\n   ")
  \o EndIf \o D("\n")
  \o EndFor
  \o D("\n\nTotal Recipients: ") \o V(Flt(Name("recipients"), "length", None))
  \o D("\nActive Recipients: ")
  \o V(Flt(Flt(Flt(Name("recipients"), "selectattr",
                   VList(<<VTxt("status"), VTxt("equalto"), VTxt("active")>>)),
               "list", None), "length", None))
  \o D("\n")

Texts(l) == VList([i \in 1..Len(l) |-> VTxt(l[i])])

Recipient(name, email, status, tags) ==
  VDict(<<"name", "email", "status", "tags">>,
        [name |-> VTxt(name), email |-> VTxt(email), status |-> VTxt(status),
         tags |-> Texts(tags)])

\* simple_demo.py, email_data.
recipients_data ==
  [recipients |-> VList(<<
     Recipient("Alice Johnson", "alice@test.com", "active", <<"customer", "premium">>),
     Recipient("Bob Smith", "bob@test.com", "inactive", <<"prospect">>),
     Recipient("Carol Davis", "carol@test.com", "active", <<"customer">>),
     Recipient("David Wilson", "david@test.com", "active", <<"customer", "vip">>) >>)]

\* comprehensive_demo.py, sql_template (section 3).
ColumnStart == "\n    "
RowStart == "\n("
Comma == ","
sql_columns ==
  D("\n") \o For("column", Attr(Name("table"), "columns"))
  \o D(ColumnStart) \o V(Attr(Name("column"), "name")) \o D(" ")
  \o V(Attr(Name("column"), "type"))
  \o If(Attr(Name("column"), "length")) \o D("(")
  \o V(Attr(Name("column"), "length")) \o D(")") \o EndIf
  \o If(Attr(Name("column"), "nullable")) \o D(" NULL") \o Else \o D(" NOT NULL") \o EndIf
  \o If(Attr(Name("column"), "default")) \o D(" DEFAULT ")
  \o V(Attr(Name("column"), "default")) \o EndIf
  \o If(Attr(Name("column"), "primary_key")) \o D(" PRIMARY KEY") \o EndIf
  \o If(Not(Attr(Name("loop"), "last"))) \o D(Comma) \o EndIf
  \o D("\n") \o EndFor

sql_indexes ==
  D("\n") \o If(Attr(Name("table"), "indexes"))
  \o D("\n\n    -- Indexes for ") \o V(Attr(Name("table"), "name")) \o D("\n")
  \o For("index", Attr(Name("table"), "indexes"))
  \o D("\nCREATE INDEX idx_") \o V(Attr(Name("table"), "name")) \o D("_")
  \o V(Attr(Name("index"), "name")) \o D(" ON ") \o V(Attr(Name("table"), "name"))
  \o D(" (") \o V(Flt(Attr(Name("index"), "columns"), "join", VTxt(", ")))
  \o D(");\n") \o EndFor
  \o D("\n") \o EndIf

sql_sample_data ==
  D("\n") \o If(Attr(Name("table"), "sample_data"))
  \o D("\n-- Sample data for ") \o V(Attr(Name("table"), "name"))
  \o D("\nINSERT INTO ") \o V(Attr(Name("table"), "name")) \o D(" (")
  \o V(Flt(CallM(Item(Attr(Name("table"), "sample_data"), 0), "keys", ""),
           "join", VTxt(", ")))
  \o D(") VALUES\n")
  \o For("row", Attr(Name("table"), "sample_data"))
  \o D(RowStart) \o For("key, value", CallM(Name("row"), "items", ""))
  \o D("'") \o V(Name("value")) \o D("'")
  \o If(Not(Attr(Name("loop"), "last"))) \o D(", ") \o EndIf \o EndFor
  \o D(")") \o If(Not(Attr(Name("loop"), "last"))) \o D(Comma) \o EndIf
  \o D("\n") \o EndFor
  \o D(";\n\n") \o EndIf \o D("\n")

sql_template ==
  D("\n-- ") \o V(Name("project_name")) \o D(" Database Schema\n-- Generated on ")
  \o V(CallM(Name("timestamp"), "strftime", "%Y-%m-%d %H:%M:%S"))
  \o D("\n-- Version: ") \o V(Name("version")) \o D("\n\n")
  \o For("table", Name("tables"))
  \o D("\n-- Table: ") \o V(Attr(Name("table"), "name"))
  \o D("\nCREATE TABLE IF NOT EXISTS ") \o V(Attr(Name("table"), "name")) \o D(" (")
  \o sql_columns \o sql_indexes \o D("\n);\n\n") \o EndFor
  \o D("\n\n-- Insert sample data\n")
  \o For("table", Name("tables")) \o sql_sample_data \o EndFor
  \o D("\n\n-- Create relationships\n")
  \o For("relationship", Name("relationships"))
  \o D("\nALTER TABLE ") \o V(Attr(Name("relationship"), "table"))
  \o D(" ADD CONSTRAINT fk_") \o V(Attr(Name("relationship"), "name"))
  \o D("\n    FOREIGN KEY (") \o V(Attr(Name("relationship"), "column"))
  \o D(") REFERENCES ") \o V(Attr(Name("relationship"), "references_table"))
  \o D(" (") \o V(Attr(Name("relationship"), "references_column")) \o D(");\n")
  \o EndFor \o D("\n\nCOMMIT;\n")

\* A column of sql_data: the keys the source gives it, in its order.
Column(name, type, length, nullable, default, primary_key) ==
  LET has == [length |-> length # None, default |-> default # None,
              primary_key |-> primary_key]
      all == <<"name", "type", "length", "nullable", "default", "primary_key">>
      given(k) == k \in {"name", "type", "nullable"} \/ has[k]
      full == [name |-> VTxt(name), type |-> VTxt(type), length |-> length,
               nullable |-> VBool(nullable), default |-> default,
               primary_key |-> VBool(TRUE)]
      ks == SelectSeq(all, given)
  IN  VDict(ks, [k \in {ks[i] : i \in 1..Len(ks)} |-> full[k]])

Index(name, columns) ==
  VDict(<<"name", "columns">>, [name |-> VTxt(name), columns |-> Texts(columns)])

SampleRow(email, password_hash, first_name, last_name) ==
  VDict(<<"email", "password_hash", "first_name", "last_name">>,
        [email |-> VTxt(email), password_hash |-> VTxt(password_hash),
         first_name |-> VTxt(first_name), last_name |-> VTxt(last_name)])

users_table ==
  VDict(<<"name", "columns", "indexes", "sample_data">>,
        [name |-> VTxt("users"),
         columns |-> VList(<<
           Column("id", "SERIAL", None, FALSE, None, TRUE),
           Column("email", "VARCHAR", VInt(255), FALSE, None, FALSE),
           Column("password_hash", "VARCHAR", VInt(255), FALSE, None, FALSE),
           Column("first_name", "VARCHAR", VInt(100), FALSE, None, FALSE),
           Column("last_name", "VARCHAR", VInt(100), FALSE, None, FALSE),
           Column("created_at", "TIMESTAMP", None, FALSE, VTxt("CURRENT_TIMESTAMP"), FALSE),
           Column("is_active", "BOOLEAN", None, FALSE, VTxt("TRUE"), FALSE) >>),
         indexes |-> VList(<<Index("email", <<"email">>)>>),
         sample_data |-> VList(<<
           SampleRow("alice@example.com", "hashed_password_1", "Alice", "Johnson"),
           SampleRow("bob@example.com", "hashed_password_2", "Bob", "Smith") >>)])

products_table ==
  VDict(<<"name", "columns", "indexes">>,
        [name |-> VTxt("products"),
         columns |-> VList(<<
           Column("id", "SERIAL", None, FALSE, None, TRUE),
           Column("name", "VARCHAR", VInt(255), FALSE, None, FALSE),
           Column("description", "TEXT", None, TRUE, None, FALSE),
           Column("price", "DECIMAL", VTxt("10,2"), FALSE, None, FALSE),
           Column("category", "VARCHAR", VInt(100), FALSE, None, FALSE),
           Column("stock_quantity", "INTEGER", None, FALSE, VTxt("0"), FALSE),
           Column("created_at", "TIMESTAMP", None, FALSE, VTxt("CURRENT_TIMESTAMP"), FALSE) >>),
         indexes |-> VList(<<Index("category", <<"category">>),
                             Index("price", <<"price">>)>>)])

\* comprehensive_demo.py, sql_data, built when main runs at wall-clock
\* reading c.
sql_data(c) ==
  [project_name |-> VTxt("E-commerce Platform"),
   version |-> VTxt("1.0.0"),
   timestamp |-> Now(c),
   tables |-> VList(<<users_table, products_table>>),
   relationships |-> VList(<<
     VDict(<<"name", "table", "column", "references_table", "references_column">>,
           [name |-> VTxt("user_orders"), table |-> VTxt("orders"),
            column |-> VTxt("user_id"), references_table |-> VTxt("users"),
            references_column |-> VTxt("id")]) >>)]

\* jinja2-example.py, product_catalog_template; the star of a rating is
\* written [star].
product_card ==
  D("\n            <div class=\"card\">\n                <h3>")
  \o V(Attr(Name("product"), "name"))
  \o D("</h3>[...]<p class=\"description\">")
  \o V(Flt(Attr(Name("product"), "description"), "truncate", VInt(150)))
  \o D("</p>[...]<div class=\"pricing\">\n                    ")
  \o If(Attr(Name("product"), "on_sale"))
  \o D("[...]<p class=\"price sale-price\">")
  \o V(Flt(Attr(Name("product"), "sale_price"), "currency", None))
  \o D("</p>[...]Was: ") \o V(Flt(Attr(Name("product"), "price"), "currency", None))
  \o D("</p>[...]<span class=\"badge\">SALE!</span>[...]")
  \o Else \o D("[...]<p class=\"price\">")
  \o V(Flt(Attr(Name("product"), "price"), "currency", None)) \o D("</p>[...]")
  \o EndIf
  \o D("[...]</div>[...]Category:</strong> ") \o V(Attr(Name("product"), "category"))
  \o D("</p>[...]Stock:</strong> ") \o V(Attr(Name("product"), "stock"))
  \o D(" units</p>[...]")
  \o If(Attr(Name("product"), "rating")) \o D("[...]Rating:</strong> [...]")
  \o For("i", Range(Attr(Name("product"), "rating"))) \o D("[star]") \o EndFor
  \o D("[...](") \o V(Attr(Name("product"), "rating")) \o D("/5)[...]</p>[...]")
  \o EndIf
  \o D("[...]Add to Cart[...]</button>\n            </div>\n        ")

no_products_card == "\n    <div class=\"card\">\n        <p>No products available.</p>\n    </div>\n"

product_catalog_template ==
  D("\n") \o Extends("base.html") \o D("\n\n")
  \o Block("title") \o D("Product Catalog") \o EndBlock \o D("\n\n")
  \o Block("header") \o D("Product Catalog") \o EndBlock \o D("\n\n")
  \o Block("content")
  \o D("\n<div class=\"stats card\">[...]Total Products:</strong> ")
  \o V(Flt(Name("products"), "length", None))
  \o D("</p>[...]On Sale:</strong> ")
  \o V(Flt(Flt(Flt(Name("products"), "selectattr", VTxt("on_sale")), "list", None),
           "length", None))
  \o D("</p>[...]Average Price:</strong> ")
  \o V(Flt(Div(Flt(Name("products"), "sum", VTxt("price")),
               Flt(Name("products"), "length", None)),
           "currency", None))
  \o D("</p>[...]Categories:</strong> ")
  \o V(Flt(Flt(Flt(Flt(Name("products"), "map", VTxt("category")), "unique", None),
               "list", None), "join", VTxt(", ")))
  \o D("</p>\n</div>\n\n")
  \o If(Name("products")) \o D("\n    <div class=\"grid\">\n        ")
  \o For("product", Name("products")) \o product_card \o EndFor
  \o D("\n    </div>\n") \o Else \o D(no_products_card) \o EndIf
  \o D("\n") \o EndBlock \o D("\n")

\* A product of product_data: sale_price is a key of the first alone.  A
\* description is one lexeme.
CatalogProduct(name, description, price, sale_price, category, stock, rating, on_sale) ==
  LET all == <<"name", "description", "price", "sale_price", "category", "stock",
               "rating", "on_sale">>
      given(k) == k # "sale_price" \/ sale_price # None
      full == [name |-> VTxt(name), description |-> VTxt(description), price |-> price,
               sale_price |-> sale_price, category |-> VTxt(category),
               stock |-> VInt(stock), rating |-> rating, on_sale |-> VBool(on_sale)]
      ks == SelectSeq(all, given)
  IN  VDict(ks, [k \in {ks[i] : i \in 1..Len(ks)} |-> full[k]])

product_data ==
  [products |-> VList(<<
     CatalogProduct("Premium Laptop", "High-performance laptop [...] best performance.",
                    VFloat(129999, 100), VFloat(109999, 100), "Electronics", 25,
                    VFloat(45, 10), TRUE),
     CatalogProduct("Wireless Mouse", "Ergonomic wireless mouse [...] battery life.",
                    VFloat(7999, 100), None, "Accessories", 150, VFloat(42, 10), FALSE),
     CatalogProduct("Mechanical Keyboard", "Premium mechanical keyboard [...] switches.",
                    VFloat(19999, 100), None, "Accessories", 50, VFloat(48, 10), FALSE) >>)]

\* --------------------------------------------------------------- registry

\* The filters of a fresh jinja2 Environment that the modelled templates
\* name, by implementation; truncate is jinja2's own do_truncate there.
DEFAULT_FILTERS ==
  [length |-> "do_length", list |-> "do_list", selectattr |-> "do_selectattr",
   join |-> "do_join", default |-> "do_default", truncate |-> "do_truncate",
   sum |-> "do_sum", map |-> "do_map", unique |-> "do_unique"]

\* registry with name bound to impl unless the name is bound already.
RegisterIfAbsent(registry, name, impl) ==
  [n \in DOMAIN registry \cup {name} |->
     IF n \in DOMAIN registry THEN registry[n] ELSE impl]

\* registry with name bound to impl.
Register(registry, name, impl) ==
  [n \in DOMAIN registry \cup {name} |-> IF n = name THEN impl ELSE registry[n]]

\* ------------------------------------------------------------------ state

VARIABLES
  script,       \* the script that is run
  clock,        \* the wall clock
  files,        \* the working directory: file name -> content
  importPc,     \* how far the import of jinja2-example.py has got
  filters,      \* env.filters of jinja2-example.py
  globals,      \* the names of env.globals of jinja2-example.py
  module_data,  \* user_data, ... of jinja2-example.py, once defined
  job,          \* the render call under way
  prev,         \* an earlier render call, kept for comparison
  amount,       \* the value given to the money formatters
  shown,        \* what each of the money formatters made of it
  PRODUCTS,     \* the module-level PRODUCTS list of the web application
  app_filters,  \* app.jinja_env.filters of app.py
  appPc,        \* how far the import of the web application has got
  threads,      \* the request each server thread is handling
  disk,         \* the templates directory of the document generator
  gens,         \* the runs of create_sample_documents
  call,         \* the call of a function of the document generator or of a filter
  docs          \* the documents saved: path -> content

renderVars == <<script, clock, files, importPc, filters, globals, module_data, job, prev>>
fmtVars == <<amount, shown>>
webVars == <<PRODUCTS, app_filters, appPc, threads>>
docVars == <<disk, gens>>
callVars == <<call, docs>>

\* File contents: none, template source, or text a script wrote.
Absent == [kind |-> "absent", src |-> <<>>, text |-> <<>>]
TemplateFile(src) == [kind |-> "template", src |-> src, text |-> <<>>]
TextFile(text) == [kind |-> "text", src |-> <<>>, text |-> text]

\* What FileSystemLoader('.') finds: the template files of the directory.
LoaderFiles(dir) ==
  [n \in {m \in DOMAIN dir : dir[m].kind = "template"} |-> dir[n].src]

\* The call sites: main of simple_demo.py (section 1), main of
\* comprehensive_demo.py (section 1) and render_user_list.
Sites == {"simple_demo", "comprehensive_demo", "render_user_list"}

\* The sites that go through env of jinja2-example.py; the others construct
\* Template(...) on jinja2's shared default environment, which has no
\* loader and no global now.
EnvSites == {"render_user_list", "render_product_catalog"}

\* More call sites: main of simple_demo.py (section 3), main of
\* comprehensive_demo.py (section 3) and render_product_catalog.
LoopSites == {"simple_demo_list", "comprehensive_demo_sql", "render_product_catalog"}
AllSites == Sites \cup LoopSites

SiteSource(site) ==
  CASE site = "simple_demo" -> basic_template
    [] site = "comprehensive_demo" -> email_template
    [] site = "render_user_list" -> user_list_template
    [] site = "simple_demo_list" -> list_template
    [] site = "comprehensive_demo_sql" -> sql_template
    [] site = "render_product_catalog" -> product_catalog_template

\* The file the site writes its output to, "" when it prints it.
SiteFile(site) ==
  CASE site = "comprehensive_demo" -> "welcome_email.txt"
    [] site = "comprehensive_demo_sql" -> "database_schema.sql"
    [] OTHER -> ""

\* The context the site passes: built at the call for the scripts, the
\* module's dictionary for jinja2-example.py.
SiteData(site, c, md) ==
  CASE site = "simple_demo" -> basic_data(c)
    [] site = "comprehensive_demo" -> email_data(c)
    [] site = "render_user_list" -> md.user_data
    [] site = "simple_demo_list" -> recipients_data
    [] site = "comprehensive_demo_sql" -> sql_data(c)
    [] site = "render_product_catalog" -> md.product_data

SiteFilters(site, reg) == IF site \in EnvSites THEN reg ELSE DEFAULT_FILTERS
SiteEnv(site, reg, glob, c) ==
  IF site \in EnvSites THEN Env(reg, glob, c) ELSE Env(DEFAULT_FILTERS, {}, c)
SiteLoader(site, dir) ==
  IF site \in EnvSites THEN LoaderFiles(dir) ELSE [n \in {} |-> <<>>]

\* ----------------------------------------------------------------- inputs

\* ctx without the names in K.
Without(ctx, K) == [k \in DOMAIN ctx \ K |-> ctx[k]]

\* ctx whose dict k lacks key a.
WithoutAttr(ctx, k, a) ==
  LET d == ctx[k]
      keep(x) == x # a
  IN  [ctx EXCEPT ![k] = VDict(SelectSeq(d.ks, keep), [x \in DOMAIN d.m \ {a} |-> d.m[x]])]

\* The contexts a template is rendered with: the one the source passes,
\* that one less a name, or less a key of one of its dicts, and for the
\* user list the one with no users.
MissingContexts(site, full) ==
  {full}
  \cup {Without(full, {k}) : k \in DOMAIN full}
  \cup UNION {{WithoutAttr(full, k, a) : a \in DOMAIN full[k].m} :
              k \in {x \in DOMAIN full : full[x].t = "dict"}}
  \cup (IF site = "render_user_list" THEN {[full EXCEPT !.users = VList(<<>>)]} ELSE {})

\* The first n of a list.
FirstOf(list, n) == VList(SubSeq(list.l, 1, n))
\* dict with value v at key k.
WithKey(dict, k, v) == [dict EXCEPT !.m[k] = v]

\* The contexts of the loops: the one the source passes with the first so
\* many of its recipients; of the columns and of the sample rows of its
\* first table; of its products, these with their ratings or without.
LoopContexts(site, full) ==
  CASE site = "simple_demo_list" ->
         {[full EXCEPT !.recipients = FirstOf(@, n)] : n \in 0..Len(full.recipients.l)}
    [] site = "comprehensive_demo_sql" ->
         LET t == full.tables.l[1]
             nc == Len(t.m.columns.l)
             nr == Len(t.m.sample_data.l)
         IN  {[full EXCEPT !.tables =
                 VList(<<WithKey(WithKey(t, "columns", FirstOf(t.m.columns, n[1])),
                                 "sample_data", FirstOf(t.m.sample_data, n[2]))>>
                       \o Tail(@.l))] :
                n \in {x \in (0..nc) \X (0..nr) : x[1] = nc \/ x[2] = nr}}
    [] site = "render_product_catalog" ->
         LET unrated(l) == VList([i \in 1..Len(l.l) |-> WithoutAttr([p |-> l.l[i]], "p", "rating").p])
         IN  {[full EXCEPT !.products = FirstOf(@, n)] : n \in 0..Len(full.products.l)}
             \cup {[full EXCEPT !.products = unrated(FirstOf(@, n))] :
                     n \in 0..Len(full.products.l)}

Contexts(site, full) ==
  IF site \in Sites THEN MissingContexts(site, full) ELSE LoopContexts(site, full)

\* The positions of the tokens of tags (delimiters, expressions, statements).
TagTokens(src) ==
  LET tag(i) == src[i].k # "data"
  IN  SelectSeq(Tuple([i \in 1..Len(src) |-> i], Len(src)), tag)
\* Those of the first and of the last MaxCuts tags (a tag is three tokens).
CutPoints(src) ==
  LET tt == TagTokens(src)
  IN  {tt[k] : k \in {x \in 1..Len(tt) : x <= 3 * MaxCuts \/ x > Len(tt) - 3 * MaxCuts}}

RemoveAt(seq, i) == SubSeq(seq, 1, i - 1) \o SubSeq(seq, i + 1, Len(seq))

\* The template texts a site is given: its own, or its own less a token.
Sources(site) ==
  {SiteSource(site)}
  \cup (IF site \in Sites
        THEN {RemoveAt(SiteSource(site), i) : i \in CutPoints(SiteSource(site))}
        ELSE {})

\* ------------------------------------------------------------------- jobs

NoCtx == [none |-> None]
NoModuleData == [user_data |-> NoCtx, product_data |-> NoCtx]

\* The money formatters and the web application are not run.
NoAmount == [k |-> "none", neg |-> FALSE, d |-> 0, f |-> 0]
NoShown == [of |-> {}, app |-> <<>>, jinja2 |-> <<>>, word |-> <<>>]
FmtIdle == amount = NoAmount /\ shown = NoShown
NoThreads == <<>>
WebIdle ==
  /\ PRODUCTS = <<>> /\ app_filters = [none |-> ""]
  /\ appPc = "" /\ threads = NoThreads
\* No document is generated.
NoDisk == [dir |-> "absent", template |-> "absent", saves |-> 0, overwritten |-> FALSE]
DocIdle == disk = NoDisk /\ gens = <<>>
\* No function is called on its own.
NoCall == [fn |-> "", pc |-> ""]
NoDocs == <<>>
CallIdle == call = NoCall /\ docs = NoDocs
Idle ==
  [site |-> "", src |-> <<>>, ctx |-> NoCtx, stage |-> "idle", nodes |-> <<>>,
   out |-> <<>>, exc |-> "", at |-> "", now |-> 0]
NoRender == [site |-> "", src |-> <<>>, ctx |-> NoCtx, now |-> 0, out |-> <<>>, exc |-> ""]

\* What is kept of a render call: the template, the context, the wall clock
\* it read and the outcome.
RenderRecord(j) ==
  [site |-> j.site, src |-> j.src, ctx |-> j.ctx, now |-> j.now, out |-> j.out, exc |-> j.exc]

Init ==
  /\ script \in Sites
  /\ clock = 0
  /\ files \in {[n \in {"base.html", "welcome_email.txt"} |-> Absent],
                [n \in {"base.html", "welcome_email.txt"} |->
                   IF n = "base.html" THEN TemplateFile(base_template) ELSE Absent]}
  /\ importPc = "l11"
  /\ filters = [none |-> ""]
  /\ globals = {}
  /\ module_data = NoModuleData
  /\ job = Idle
  /\ prev = NoRender
  /\ FmtIdle
  /\ WebIdle
  /\ DocIdle
  /\ CallIdle

\* The wall clock advances.
Tick ==
  /\ clock < MaxClock
  /\ clock' = clock + 1
  /\ UNCHANGED <<callVars, fmtVars, webVars, docVars, script, files, importPc, filters, globals, module_data, job, prev>>

\* jinja2-example.py line 11: env = Environment(loader=FileSystemLoader('.')).
Import_l11 ==
  /\ script \in EnvSites
  /\ importPc = "l11"
  /\ filters' = DEFAULT_FILTERS
  /\ importPc' = "l12"
  /\ UNCHANGED <<callVars, fmtVars, webVars, docVars, script, clock, files, globals, module_data, job, prev>>

\* line 12: env.globals['now'] = datetime.now.
Import_l12 ==
  /\ script \in EnvSites
  /\ importPc = "l12"
  /\ globals' = globals \cup {"now"}
  /\ importPc' = "l32"
  /\ UNCHANGED <<callVars, fmtVars, webVars, docVars, script, clock, files, filters, module_data, job, prev>>

\* line 32: env.filters['currency'] = format_currency.
Import_l32 ==
  /\ script \in EnvSites
  /\ importPc = "l32"
  /\ filters' = Register(filters, "currency", "format_currency")
  /\ importPc' = "l33"
  /\ UNCHANGED <<callVars, fmtVars, webVars, docVars, script, clock, files, globals, module_data, job, prev>>

\* line 33: env.filters['date'] = format_date.
Import_l33 ==
  /\ script \in EnvSites
  /\ importPc = "l33"
  /\ filters' = Register(filters, "date", "format_date")
  /\ importPc' = "l34"
  /\ UNCHANGED <<callVars, fmtVars, webVars, docVars, script, clock, files, globals, module_data, job, prev>>

\* line 34: env.filters['truncate'] = truncate_text.
Import_l34 ==
  /\ script \in EnvSites
  /\ importPc = "l34"
  /\ filters' = Register(filters, "truncate", "truncate_text")
  /\ importPc' = "l303"
  /\ UNCHANGED <<callVars, fmtVars, webVars, docVars, script, clock, files, globals, module_data, job, prev>>

\* lines 303-407: the sample data; the import is complete.
Import_l303 ==
  /\ script \in EnvSites
  /\ importPc = "l303"
  /\ module_data' = [user_data |-> user_data(clock), product_data |-> product_data]
  /\ importPc' = "ready"
  /\ UNCHANGED <<callVars, fmtVars, webVars, docVars, script, clock, files, filters, globals, job, prev>>

\* The calls of a site: its template with each of the contexts, and each of
\* the template texts with the context the source passes.
Inputs(site, full) ==
  {[src |-> SiteSource(site), ctx |-> ctx] : ctx \in Contexts(site, full)}
  \cup {[src |-> src, ctx |-> full] : src \in Sources(site)}

\* A render call starts: the site is given a template text and a context.
\* Once a render is kept for comparison, the calls that follow repeat it.
Start ==
  /\ job.stage = "idle"
  /\ \E site \in {script} \cap AllSites :
       /\ site \in EnvSites => importPc = "ready"
       /\ \E in \in Inputs(site, SiteData(site, clock, module_data)) :
            /\ prev.site # "" => (in.src = prev.src /\ in.ctx = prev.ctx)
            /\ job' = [Idle EXCEPT !.site = site, !.src = in.src, !.ctx = in.ctx,
                                   !.stage = "constructing"]
  /\ UNCHANGED <<callVars, fmtVars, webVars, docVars, script, clock, files, importPc, filters, globals, module_data, prev>>

\* template = Template(source) / env.from_string(source).
Construct ==
  /\ job.stage = "constructing"
  /\ LET c == Compile(job.src, SiteFilters(job.site, filters))
     IN  job' = IF c.err # ""
                THEN [job EXCEPT !.stage = "raised", !.exc = c.err, !.at = "construct"]
                ELSE [job EXCEPT !.stage = "constructed", !.nodes = c.nodes]
  /\ UNCHANGED <<callVars, fmtVars, webVars, docVars, script, clock, files, importPc, filters, globals, module_data, prev>>

\* result = template.render(**data).
Render ==
  /\ job.stage = "constructed"
  /\ LET r == RenderTemplate(job.nodes, job.ctx,
                             SiteEnv(job.site, filters, globals, clock),
                             SiteLoader(job.site, files))
     IN  job' = IF r.exc # ""
                THEN [job EXCEPT !.stage = "raised", !.exc = r.exc, !.at = "render",
                                 !.now = clock]
                ELSE [job EXCEPT !.stage = "rendered", !.out = r.out, !.now = clock]
  /\ UNCHANGED <<callVars, fmtVars, webVars, docVars, script, clock, files, importPc, filters, globals, module_data, prev>>

\* open(file, 'w'): the file is created, or cut to nothing.
OpenedForAppend(old) == IF old.kind = "text" THEN old ELSE TextFile(<<>>)
OpenedForWriting(old) == TextFile(<<>>)

\* with open(file, 'w', encoding='utf-8') as f:
Open ==
  /\ job.stage = "rendered"
  /\ SiteFile(job.site) # ""
  /\ files' = [files EXCEPT ![SiteFile(job.site)] = OpenedForWriting(@)]
  /\ job' = [job EXCEPT !.stage = "opened"]
  /\ UNCHANGED <<callVars, fmtVars, webVars, docVars, script, clock, importPc, filters, globals, module_data, prev>>

\* f.write(output), and the file is closed.
Write ==
  /\ job.stage = "opened"
  /\ files' = [files EXCEPT ![SiteFile(job.site)] = TextFile(@.text \o job.out)]
  /\ job' = [job EXCEPT !.stage = "done"]
  /\ UNCHANGED <<callVars, fmtVars, webVars, docVars, script, clock, importPc, filters, globals, module_data, prev>>

\* print(result): the sites that write no file.
PrintResult ==
  /\ job.stage = "rendered"
  /\ SiteFile(job.site) = ""
  /\ job' = [job EXCEPT !.stage = "done"]
  /\ UNCHANGED <<callVars, fmtVars, webVars, docVars, script, clock, files, importPc, filters, globals, module_data, prev>>

\* The call is over: it returned, or its exception left the script.  The
\* render may be the one kept for comparison.
Return ==
  /\ job.stage \in {"done", "raised"}
  /\ job' = Idle
  /\ prev' \in {prev} \cup (IF job.at # "construct" THEN {RenderRecord(job)} ELSE {})
  /\ UNCHANGED <<callVars, fmtVars, webVars, docVars, script, clock, files, importPc, filters, globals, module_data>>

Next ==
  \/ Tick
  \/ Import_l11 \/ Import_l12 \/ Import_l32 \/ Import_l33 \/ Import_l34 \/ Import_l303
  \/ Start \/ Construct \/ Render \/ Open \/ Write \/ PrintResult \/ Return

vars == <<renderVars, fmtVars, webVars, docVars, callVars>>
Spec == Init /\ [][Next]_vars

\* The scripts run for their loops and render_product_catalog called;
\* base.html is in the working directory or is not.
FileNames == {"base.html", "welcome_email.txt", "database_schema.sql"}
InitLoops ==
  /\ script \in LoopSites
  /\ clock = 0
  /\ files \in {[n \in FileNames |-> Absent],
                [n \in FileNames |->
                   IF n = "base.html" THEN TemplateFile(base_template) ELSE Absent]}
  /\ importPc = "l11"
  /\ filters = [none |-> ""]
  /\ globals = {}
  /\ module_data = NoModuleData
  /\ job = Idle
  /\ prev = NoRender
  /\ FmtIdle
  /\ WebIdle
  /\ DocIdle
  /\ CallIdle
SpecLoops == InitLoops /\ [][Next]_vars

\* ----------------------------------------------------------- properties

\* The render call of the job has run: it returned text or raised.
HasRendered(j) == j.stage \in {"rendered", "opened", "done"} \/ (j.stage = "raised" /\ j.at = "render")

\* The contexts that bind every name the site's template refers to: the ones
\* the source passes.
FullContexts(site) == {SiteData(site, c, module_data) : c \in 0..MaxClock}

C2_NoResidualSyntax ==
  (/\ job.stage \in {"rendered", "opened", "done"}
   /\ job.src = SiteSource(job.site)
   /\ job.ctx \in FullContexts(job.site))
  => ~HasTemplateSyntax(job.out)

\* The text of the data token at i of a template source.
DataAt(src, i) == src[i].s

\* C3: the user list, extending the base template, is the base layout with
\* title, header and content as the child defines them, the footer as the
\* parent defines it and nothing for extra_css, which the parent leaves empty.
C3_ChildWinsParentFallback ==
  (job.site = "render_user_list" /\ job.src = user_list_template /\ job.stage = "rendered")
  => LET env == SiteEnv(job.site, filters, globals, job.now)
         child == BlocksOf(Compile(user_list_template, filters).nodes)
         content == RenderNodes(child["content"], job.ctx, env, <<>>)
         stamp == Eval(base_template[24].e, job.ctx, env)
     IN  job.out =
           <<"\n", DataAt(base_template, 1), "User Directory", DataAt(base_template, 8),
             DataAt(base_template, 15), "User Directory", DataAt(base_template, 22)>>
           \o ToText(stamp.v)
           \o <<DataAt(base_template, 26)>>
           \o content.out
           \o <<DataAt(base_template, 33), base_footer, DataAt(base_template, 41)>>

C3_Witness ==
  /\ job.site = "render_user_list" /\ job.src = user_list_template /\ job.stage = "rendered"
  /\ "users" \in DOMAIN job.ctx /\ job.ctx.users.l # <<>>

\* The text has lexeme x.
HasLexeme(text, x) == \E i \in 1..Len(text) : text[i] = x

\* C5: the user list rendered with users = [] has the 'No users found.'
\* card and no per-user card.
C5_EmptyUsersCard ==
  (/\ job.site = "render_user_list" /\ job.src = user_list_template
   /\ "users" \in DOMAIN job.ctx /\ job.ctx.users = VList(<<>>)
   /\ HasRendered(job))
  => /\ job.stage # "raised"
     /\ HasLexeme(job.out, no_users_card)
     /\ ~HasLexeme(job.out, DataAt(user_card, 1))

\* The access path an expression names: <<"recipient", "name">> for
\* recipient.name; <<>> for what is not a name or an attribute of one.
RECURSIVE Path(_)
Path(e) ==
  CASE e.e = "name" -> <<e.n>>
    [] e.e = "attr" -> IF Path(e.of) = <<>> THEN <<>> ELSE Path(e.of) \o <<e.a>>
    [] OTHER -> <<>>

\* The value the context holds at a path, Undefined where it holds none.
RECURSIVE ValueAt(_, _)
ValueAt(ctx, p) ==
  IF Len(p) = 1 THEN (IF p[1] \in DOMAIN ctx THEN ctx[p[1]] ELSE Undefined)
  ELSE GetItem(ValueAt(ctx, SubSeq(p, 1, Len(p) - 1)), p[Len(p)])

\* The paths of which an expression takes an attribute or calls a method;
\* the date filter calls value.strftime.
RECURSIVE DerefTargets(_)
DerefTargets(e) ==
  CASE e.e \in {"attr", "callm"} -> {Path(e.of)} \cup DerefTargets(e.of)
    [] e.e = "filter" -> (IF e.f = "date" THEN {Path(e.of)} ELSE {}) \cup DerefTargets(e.of)
    [] e.e = "not" -> DerefTargets(e.of)
    [] OTHER -> {}

\* Item j of the table is evaluated in ctx: every {% if %} around it holds.
Reached(t, j, ctx, env) ==
  \A i \in {o \in t.opens : o < j /\ j < CloseOf(t, o)} :
    t.items[i].n = "if" => Truthy(Eval(t.items[i].e, ctx, env).v)

\* Rendering src in ctx takes an attribute or a method of a value the
\* context does not hold.
DerefsUndefined(src, ctx, env) ==
  LET t == Table(Lex(src))
  IN  \E j \in 1..Len(t.items) :
        /\ t.items[j].k = "out" \/ (t.items[j].k = "stmt" /\ t.items[j].n = "if")
        /\ Reached(t, j, ctx, env)
        /\ \E p \in DerefTargets(t.items[j].e) : p # <<>> /\ ValueAt(ctx, p).t = "undefined"

\* ctx with the empty string for every name, and every key of a dict, that
\* full holds and ctx lacks.
Blanked(ctx, full) ==
  [k \in DOMAIN full |->
     IF k \notin DOMAIN ctx THEN VStr(<<>>)
     ELSE IF full[k].t # "dict" THEN ctx[k]
     ELSE VDict(full[k].ks,
                [a \in DOMAIN full[k].m |->
                   IF a \in DOMAIN ctx[k].m THEN ctx[k].m[a] ELSE VStr(<<>>)])]

\* The demo scripts that render with Template(...).render(**data).
DemoSites == {"simple_demo", "comprehensive_demo"}

\* The configured policy, as {{ missing }} with an empty context shows it:
\* it raises, or it renders the empty string.
PolicyRaises == Eval(Name("missing"), NoCtx, Env(DEFAULT_FILTERS, {}, 0)).exc # ""

C6_WitnessEmpty ==
  /\ job.site = "comprehensive_demo" /\ job.src = email_template
  /\ "subject" \notin DOMAIN job.ctx
  /\ job.stage = "done"

\* The statements of the whole tags of a source, in order.
Statements(src) ==
  LET st(i) ==
        /\ src[i].k = "stmt" /\ 1 < i /\ i < Len(src)
        /\ src[i - 1].k = "bb" /\ src[i + 1].k = "be"
      at == SelectSeq(Tuple([i \in 1..Len(src) |-> i], Len(src)), st)
  IN  Tuple([k \in 1..Len(at) |-> src[at[k]].n], Len(at))

\* The statements nest: read in order with a stack of the open ones, each
\* end tag ends the last opened statement, elif and else stand in an if
\* that has had no else, and nothing stays open.
RECURSIVE Balanced(_, _)
Balanced(stmts, stack) ==
  IF stmts = <<>> THEN stack = <<>>
  ELSE
    LET s == Head(stmts)
    IN  CASE s \in {"if", "for", "block"} -> Balanced(Tail(stmts), <<s>> \o stack)
          [] s \in {"endif", "endfor", "endblock"} ->
               /\ stack # <<>>
               /\ s = (CASE Head(stack) \in {"if", "else"} -> "endif"
                         [] Head(stack) = "for" -> "endfor"
                         [] OTHER -> "endblock")
               /\ Balanced(Tail(stmts), Tail(stack))
          [] s = "elif" -> stack # <<>> /\ Head(stack) = "if" /\ Balanced(Tail(stmts), stack)
          [] s = "else" ->
               /\ stack # <<>> /\ Head(stack) = "if"
               /\ Balanced(Tail(stmts), <<"else">> \o Tail(stack))
          [] OTHER -> Balanced(Tail(stmts), stack)

\* The template text is malformed: a delimiter is opened and what follows is
\* not one expression or statement and the closing delimiter, or the
\* statements do not nest.
Malformed(src) ==
  \/ \E i \in 1..Len(src) :
       \/ /\ src[i].k = "vb"
          /\ ~(i + 2 <= Len(src) /\ src[i + 1].k = "expr" /\ src[i + 2].k = "ve")
       \/ /\ src[i].k = "bb"
          /\ ~(i + 2 <= Len(src) /\ src[i + 1].k = "stmt" /\ src[i + 2].k = "be")
  \/ ~Balanced(Statements(src), <<>>)

\* C7: a malformed template text raises TemplateSyntaxError when the
\* template is constructed: render never runs on it, the call ends with the
\* exception, and the output file is neither opened nor written.
C7_FailFast ==
  /\ []((Malformed(job.src) /\ job.stage # "idle")
        => /\ job.stage \in {"constructing", "raised"}
           /\ job.stage = "raised" =>
                (job.at = "construct" /\ job.exc = "TemplateSyntaxError" /\ job.out = <<>>))
  /\ [][Malformed(job.src) => files' = files]_vars

C7_Witness ==
  /\ job.site = "comprehensive_demo" /\ Malformed(job.src)
  /\ job.stage = "raised" /\ job.at = "construct"
  /\ files["welcome_email.txt"] = Absent

\* A text that is not malformed is constructed: the render call is reached.
C7_WitnessWellFormed ==
  /\ job.site = "comprehensive_demo" /\ job.src # email_template
  /\ job.stage = "done"

\* Nothing is rendered.
RenderIdle ==
  /\ script = "" /\ clock = 0 /\ importPc = ""
  /\ files = [n \in {"base.html", "welcome_email.txt"} |-> Absent]
  /\ filters = [none |-> ""] /\ globals = {}
  /\ module_data = NoModuleData
  /\ job = Idle /\ prev = NoRender

InitFmt ==
  /\ amount \in Amounts
  /\ shown = NoShown
  /\ RenderIdle
  /\ WebIdle
  /\ DocIdle
  /\ CallIdle

CallCurrencyFilter ==
  /\ "app" \notin shown.of
  /\ shown' = [shown EXCEPT !.of = @ \cup {"app"}, !.app = currency_filter(amount)]
  /\ UNCHANGED <<callVars, renderVars, webVars, docVars, amount>>

CallFormatCurrency ==
  /\ "jinja2" \notin shown.of
  /\ shown' = [shown EXCEPT !.of = @ \cup {"jinja2"}, !.jinja2 = format_currency(amount)]
  /\ UNCHANGED <<callVars, renderVars, webVars, docVars, amount>>

PrepareContractContext ==
  /\ "word" \notin shown.of
  /\ shown' = [shown EXCEPT !.of = @ \cup {"word"},
                            !.word = total_amount([amount |-> amount])]
  /\ UNCHANGED <<callVars, renderVars, webVars, docVars, amount>>

NextFmt == CallCurrencyFilter \/ CallFormatCurrency \/ PrepareContractContext
SpecFmt == InitFmt /\ [][NextFmt]_vars

IsDigit(ch) == ch \in {"0", "1", "2", "3", "4", "5", "6", "7", "8", "9"}
DigitVal(ch) == CHOOSE n \in 0..9 : ToString(n) = ch
RECURSIVE NumberOf(_)
NumberOf(digs) ==
  IF digs = <<>> THEN 0
  ELSE 10 * NumberOf(SubSeq(digs, 1, Len(digs) - 1)) + DigitVal(digs[Len(digs)])

\* text is '$', a '-' for a negative value, then the value to the nearest
\* cent (the even one when halfway): the whole part without leading zeros,
\* a comma before every three of its digits, a point and two digits.
IsMoneyText(text, value) ==
  LET from == IF value.neg THEN 3 ELSE 2
      body == SubSeq(text, from, Len(text))
      n == Len(body)
      whole == SubSeq(body, 1, n - 3)
      isdigit(ch) == IsDigit(ch)
      off == (NumberOf(SelectSeq(whole, isdigit)) - value.d) * 100
             + 10 * DigitVal(body[n - 1]) + DigitVal(body[n])
  IN  /\ Len(text) >= from + 3
      /\ text[1] = "$"
      /\ value.neg <=> text[2] = "-"
      /\ body[n - 2] = "." /\ IsDigit(body[n - 1]) /\ IsDigit(body[n])
      /\ Len(whole) % 4 # 0
      /\ \A i \in 1..Len(whole) :
           IF (Len(whole) - i + 1) % 4 = 0 THEN whole[i] = "," ELSE IsDigit(whole[i])
      /\ whole[1] = "0" => Len(whole) = 1
      /\ NumberOf(SelectSeq(whole, isdigit)) - value.d \in {0, 1}
      /\ 8 * off - value.f \in -4..4
      /\ (8 * off - value.f \in {-4, 4}) => off % 2 = 0

AllShown == shown.of = {"app", "jinja2", "word"}

\* C4 as stated: for every numeric value the three formatters give the same
\* text, and it is '$' and the value to two decimals, the whole part grouped
\* in thousands.
C4_CurrencyText ==
  AllShown =>
    /\ shown.app = shown.jinja2 /\ shown.jinja2 = shown.word
    /\ IsMoneyText(shown.app, amount)

\* C4, amended: that holds for every finite value; the infinities and nan
\* come out as $inf, $-inf and $nan from all three.
C4_FiniteCurrencyText ==
  AllShown =>
    /\ shown.app = shown.jinja2 /\ shown.jinja2 = shown.word
    /\ amount.k = "finite" => IsMoneyText(shown.app, amount)
    /\ amount.k = "inf" =>
         shown.app = <<"$">> \o (IF amount.neg THEN <<"-">> ELSE <<>>) \o <<"i", "n", "f">>
    /\ amount.k = "nan" => shown.app = <<"$", "n", "a", "n">>

\* 1234.5 has come out as $1,234.50 from all three.
C4_Witness ==
  /\ AllShown
  /\ amount = Finite(FALSE, 1234, 400)
  /\ shown.word = <<"$", "1", ",", "2", "3", "4", ".", "5", "0">>

\* --------------------------------------------------- the web applications

\* The requests a server handles at once.
MaxThreads == 2

WebApps == {"app", "run_app", "simple_app"}

\* A product: a price is in cents, a rating in tenths.
Product(id, name, price, category, description, in_stock, rating) ==
  [id |-> id, name |-> name, price |-> price, category |-> category,
   description |-> description, in_stock |-> in_stock, rating |-> rating]
\* simple_app.py's products have no description and no rating.
SimpleProduct(id, name, price, category, in_stock) ==
  [id |-> id, name |-> name, price |-> price, category |-> category,
   in_stock |-> in_stock]

PRODUCTS_app ==
  << Product(1, "Wireless Headphones", 19999, "Electronics",
             "Premium wireless headphones with noise cancellation", TRUE, 45),
     Product(2, "Ergonomic Chair", 39999, "Furniture",
             "Comfortable ergonomic office chair", TRUE, 48),
     Product(3, "Coffee Maker", 8999, "Appliances",
             "Programmable coffee maker with thermal carafe", FALSE, 42) >>
PRODUCTS_run_app == PRODUCTS_app
PRODUCTS_simple_app ==
  << SimpleProduct(1, "Wireless Headphones", 19999, "Electronics", TRUE),
     SimpleProduct(2, "Ergonomic Chair", 39999, "Furniture", TRUE),
     SimpleProduct(3, "Coffee Maker", 8999, "Appliances", FALSE) >>

\* The list the module defines.
InitialProducts(app) ==
  CASE app = "app" -> PRODUCTS_app
    [] app = "run_app" -> PRODUCTS_run_app
    [] app = "simple_app" -> PRODUCTS_simple_app

\* A string as it is.
AsIs(s) == s

\* str.lower(), on the strings that occur.
Lower(s) ==
  CASE s \in {"Electronics", "ELECTRONICS"} -> "electronics"
    [] s = "Furniture" -> "furniture"
    [] s = "Appliances" -> "appliances"
    [] OTHER -> s

\* A request: the path, ?category= (None when absent) and <int:product_id>.
Request(path, category, product_id) ==
  [path |-> path, category |-> category, product_id |-> product_id]
Categories == {None, VStr(<<>>), VTxt("ELECTRONICS"), VTxt("toys")}
ProductIds == {2, 4}
Requests ==
  {Request("/", None, 0), Request("/health", None, 0)}
  \cup {Request("/api/products", c, 0) : c \in Categories}
  \cup {Request("/product", None, id) : id \in ProductIds}

NoRequest == Request("", None, 0)
NoStats == [count |-> 0, in_stock |-> 0, categories |-> 0, total |-> 0]
\* A response: the status, the body, and the wall clock the body shows.
Response(status, body, now) == [status |-> status, body |-> body, now |-> now]
NoResponse == Response(0, [none |-> None], 0)

\* A server thread: the request it handles and the handler's locals, i the
\* position of its iterator over PRODUCTS and acc what its loop has built.
IdleThread ==
  [pc |-> "idle", req |-> NoRequest, i |-> 1, acc |-> <<>>, stats |-> NoStats,
   now |-> 0, resp |-> NoResponse]
Received(req) == [IdleThread EXCEPT !.pc = "received", !.req = req]

\* A price in cents as f"${price:.2f}" shows it.
PriceText(price) ==
  <<"$">> \o FormatFixed(Finite(FALSE, price \div 100, 8 * (price % 100)), FALSE)

RECURSIVE SumPrices(_)
SumPrices(products) ==
  IF products = <<>> THEN 0 ELSE products[1].price + SumPrices(Tail(products))

\* run_app.py lines 238-250: len(PRODUCTS), the products in stock, the
\* distinct categories, and the sum of the prices as ':.0f' shows it.
Stats(products) ==
  LET cents == SumPrices(products)
      whole == cents \div 100
  IN  [count |-> Len(products),
       in_stock |-> Cardinality({i \in 1..Len(products) : products[i].in_stock}),
       categories |-> Cardinality({products[i].category : i \in 1..Len(products)}),
       total |-> whole + (IF cents % 100 > 50 \/ (cents % 100 = 50 /\ whole % 2 = 1)
                          THEN 1 ELSE 0)]

\* What a page shows of a product (simple_app.py puts a mark before its
\* status text, which is left out).
Card(app, product) ==
  LET status_class == IF product.in_stock THEN "in-stock" ELSE "out-of-stock"
      status_text == IF product.in_stock THEN "In Stock" ELSE "Out of Stock"
  IN  IF app = "run_app"
      THEN [name |-> product.name, category |-> product.category,
            price |-> PriceText(product.price), description |-> product.description,
            status_class |-> status_class, status_text |-> status_text,
            stars |-> product.rating \div 10, rating |-> product.rating,
            id |-> product.id]
      ELSE [name |-> product.name, category |-> product.category,
            price |-> PriceText(product.price),
            status_class |-> status_class, status_text |-> status_text,
            id |-> product.id]

\* One element of a loop over PRODUCTS: acc is what the loop has built after
\* it, products the module's list after it.

\* for product in PRODUCTS: html += ...
AddCard(products, i, acc, app) ==
  [acc |-> Append(acc, Card(app, products[i])), products |-> products]

\* [p for p in PRODUCTS if p['category'].lower() == category.lower()]
FilterRemoving(products, i, acc, category) ==
  IF Lower(products[i].category) = Lower(category.s[1])
  THEN [acc |-> Append(acc, products[i]), products |-> products]
  ELSE [acc |-> acc, products |-> RemoveAt(products, i)]
Filter(products, i, acc, category) ==
  [acc |-> IF Lower(products[i].category) = Lower(category.s[1])
           THEN Append(acc, products[i]) ELSE acc,
   products |-> products]

\* next((p for p in PRODUCTS if p['id'] == product_id), None)
FindByIndex(products, i, acc, product_id) ==
  [acc |-> IF i - 1 = product_id THEN <<products[i]>> ELSE acc,
   products |-> products]
FindPopping(products, i, acc, product_id) ==
  IF products[i].id = product_id
  THEN [acc |-> <<products[i]>>, products |-> RemoveAt(products, i)]
  ELSE [acc |-> acc, products |-> products]
Find(products, i, acc, product_id) ==
  [acc |-> IF products[i].id = product_id THEN <<products[i]>> ELSE acc,
   products |-> products]

\* The handlers that loop over PRODUCTS: the home pages of run_app.py and
\* simple_app.py, get_products of app.py when given a category, and every
\* product_detail.  The others read the list at once.
Iterates(app, req) ==
  \/ req.path = "/" /\ app # "app"
  \/ req.path = "/api/products" /\ app = "app" /\ Truthy(req.category)
  \/ req.path = "/product"

Visit(app, req, products, i, acc) ==
  CASE req.path = "/" -> AddCard(products, i, acc, app)
    [] req.path = "/api/products" -> Filter(products, i, acc, req.category)
    [] req.path = "/product" -> Find(products, i, acc, req.product_id)

\* What the handler returns, its loop over: th holds its locals, clk is the
\* wall clock.
Returned(app, req, th, products, clk) ==
  CASE req.path = "/" ->
         IF app = "app"
         THEN Response(200, [template |-> "index.html", products |-> products], 0)
         ELSE Response(200, [stats |-> th.stats, cards |-> th.acc], th.now)
    [] req.path = "/api/products" ->
         IF app = "app"
         THEN LET filtered_products ==
                    IF Truthy(req.category) THEN th.acc ELSE products
              IN  Response(200, [status |-> "success",
                                 count |-> Len(filtered_products),
                                 key |-> "data",
                                 data |-> filtered_products], 0)
         ELSE Response(200, [status |-> "success", count |-> Len(products),
                             key |-> IF app = "run_app" THEN "data" ELSE "products",
                             data |-> products], clk)
    [] req.path = "/product" ->
         IF th.acc = <<>>
         THEN Response(404, [template |-> IF app = "app" THEN "404.html" ELSE "",
                             product_id |-> IF app = "run_app" THEN req.product_id ELSE 0],
                       0)
         ELSE IF app = "app"
         THEN Response(200, [template |-> "product.html", product |-> th.acc[1]], 0)
         ELSE Response(200, [card |-> Card(app, th.acc[1])], clk)
    [] req.path = "/health" ->
         IF app = "app"
         THEN Response(404, [error |-> "Not Found"], 0)
         ELSE Response(200, [status |-> "healthy",
                             version |-> IF app = "run_app" THEN "1.0.0" ELSE "",
                             uptime |-> "running"], clk)

\* One step of the handler of th.req: the thread and the module's list
\* after it.  The home pages of run_app.py and simple_app.py begin by
\* reading the clock, and run_app.py's by its statistics; a loop visits one
\* element at a step; the last step returns the response.
HandlerStep(th, products, app, clk) ==
  LET req == th.req
  IN  IF th.pc = "received" /\ req.path = "/" /\ app # "app"
      THEN [th |-> [th EXCEPT !.pc = "running", !.now = clk,
                              !.stats = IF app = "run_app" THEN Stats(products) ELSE @],
            products |-> products]
      ELSE IF /\ Iterates(app, req)
              /\ th.i <= Len(products)
              /\ ~(req.path = "/product" /\ th.acc # <<>>)
      THEN LET v == Visit(app, req, products, th.i, th.acc)
           IN  [th |-> [th EXCEPT !.pc = "running", !.i = @ + 1, !.acc = v.acc],
                products |-> v.products]
      ELSE [th |-> [th EXCEPT !.pc = "done",
                              !.resp = Returned(app, req, th, products, clk)],
            products |-> products]

\* The response to req of a server that handles nothing else.
RECURSIVE RunAlone(_, _, _, _)
RunAlone(th, products, app, clk) ==
  IF th.pc = "done" THEN th.resp
  ELSE LET s == HandlerStep(th, products, app, clk)
       IN  RunAlone(s.th, s.products, app, clk)
Alone(app, req) == RunAlone(Received(req), InitialProducts(app), app, 0)

InitWeb ==
  /\ script \in WebApps \cup (EnvSites \cap Sites)
  /\ clock = 0
  /\ files \in {[n \in {"base.html", "welcome_email.txt"} |-> Absent],
                [n \in {"base.html", "welcome_email.txt"} |->
                   IF n = "base.html" THEN TemplateFile(base_template) ELSE Absent]}
  /\ importPc = IF script \in EnvSites THEN "l11" ELSE ""
  /\ filters = [none |-> ""]
  /\ globals = {}
  /\ module_data = NoModuleData
  /\ job = Idle
  /\ prev = NoRender
  /\ FmtIdle
  /\ DocIdle
  /\ CallIdle
  /\ PRODUCTS = <<>>
  /\ app_filters = [none |-> ""]
  /\ appPc = IF script \in WebApps THEN "Flask" ELSE ""
  /\ threads = NoThreads

\* app = Flask(__name__): the application's environment has jinja2's filters.
CreateApp ==
  /\ appPc = "Flask"
  /\ app_filters' = DEFAULT_FILTERS
  /\ appPc' = "PRODUCTS"
  /\ UNCHANGED <<callVars, renderVars, fmtVars, docVars, PRODUCTS, threads>>

\* PRODUCTS = [...]
DefineProducts ==
  /\ appPc = "PRODUCTS"
  /\ PRODUCTS' = InitialProducts(script)
  /\ appPc' = IF script = "app" THEN "currency" ELSE "run"
  /\ UNCHANGED <<callVars, renderVars, fmtVars, docVars, app_filters, threads>>

\* app.py line 68: @app.template_filter('currency').
Register_currency ==
  /\ appPc = "currency"
  /\ app_filters' = Register(app_filters, "currency", "currency_filter")
  /\ appPc' = "date_format"
  /\ UNCHANGED <<callVars, renderVars, fmtVars, docVars, PRODUCTS, threads>>

\* app.py line 73: @app.template_filter('date_format').
Register_date_format ==
  /\ appPc = "date_format"
  /\ app_filters' = Register(app_filters, "date_format", "date_format_filter")
  /\ appPc' = "run"
  /\ UNCHANGED <<callVars, renderVars, fmtVars, docVars, PRODUCTS, threads>>

\* app.run(debug=True, ...): the development server, a thread for a request.
Run ==
  /\ appPc = "run"
  /\ threads' = [t \in 1..MaxThreads |-> IdleThread]
  /\ appPc' = "serving"
  /\ UNCHANGED <<callVars, renderVars, fmtVars, docVars, PRODUCTS, app_filters>>

\* A request arrives and is given to thread t.
Receive(t) ==
  /\ appPc = "serving"
  /\ threads[t].pc = "idle"
  /\ \E req \in Requests : threads' = [threads EXCEPT ![t] = Received(req)]
  /\ UNCHANGED <<callVars, renderVars, fmtVars, docVars, PRODUCTS, app_filters, appPc>>

\* Thread t takes a step of the handler of its request.
Handle(t) ==
  /\ threads[t].pc \in {"received", "running"}
  /\ LET s == HandlerStep(threads[t], PRODUCTS, script, clock)
     IN  /\ threads' = [threads EXCEPT ![t] = s.th]
         /\ PRODUCTS' = s.products
  /\ UNCHANGED <<callVars, renderVars, fmtVars, docVars, app_filters, appPc>>

\* @app.route('/'): index of app.py, home of run_app.py and simple_app.py.
index(t) ==
  /\ appPc = "serving"
  /\ threads[t].req.path = "/"
  /\ Handle(t)

\* @app.route('/api/products'): get_products of app.py, api_products of
\* the others.
get_products(t) ==
  /\ appPc = "serving"
  /\ threads[t].req.path = "/api/products"
  /\ Handle(t)

\* @app.route('/product/<int:product_id>')
product_detail(t) ==
  /\ appPc = "serving"
  /\ threads[t].req.path = "/product"
  /\ Handle(t)

\* @app.route('/health') of run_app.py and simple_app.py.
health(t) ==
  /\ appPc = "serving"
  /\ script # "app"
  /\ threads[t].req.path = "/health"
  /\ Handle(t)

\* app.py has no route for /health: the request is answered 404.
NotFound(t) ==
  /\ appPc = "serving"
  /\ script = "app"
  /\ threads[t].req.path = "/health"
  /\ Handle(t)

\* The response of thread t is sent.
Send(t) ==
  /\ appPc = "serving"
  /\ threads[t].pc = "done"
  /\ threads' = [threads EXCEPT ![t] = IdleThread]
  /\ UNCHANGED <<callVars, renderVars, fmtVars, docVars, PRODUCTS, app_filters, appPc>>

NextWeb ==
  \/ Tick
  \/ Import_l11 \/ Import_l12 \/ Import_l32 \/ Import_l33 \/ Import_l34 \/ Import_l303
  \/ Start \/ Construct \/ Render \/ PrintResult \/ Return
  \/ CreateApp \/ DefineProducts \/ Register_currency \/ Register_date_format \/ Run
  \/ \E t \in 1..MaxThreads :
       \/ Receive(t) \/ index(t) \/ get_products(t) \/ product_detail(t)
       \/ health(t) \/ NotFound(t) \/ Send(t)

SpecWeb == InitWeb /\ [][NextWeb]_vars

\* C8: the filter registries are initialized once and then read-only.  Once
\* jinja2-example.py is imported its registry binds currency, date and
\* truncate to format_currency, format_date and truncate_text, and once
\* app.py serves its registry binds currency and date_format to
\* currency_filter and date_format_filter; from then on no step (no render
\* call, no request handler) changes either registry.
C8_RegistryReadOnly ==
  /\ [](importPc = "ready" =>
          /\ filters.currency = "format_currency"
          /\ filters.date = "format_date"
          /\ filters.truncate = "truncate_text")
  /\ []((appPc = "serving" /\ script = "app") =>
          /\ app_filters.currency = "currency_filter"
          /\ app_filters.date_format = "date_format_filter")
  /\ [][/\ importPc = "ready" => filters' = filters
        /\ appPc = "serving" => app_filters' = app_filters]_vars

\* render_user_list has rendered with the registry of jinja2-example.py.
C8_Witness ==
  /\ importPc = "ready"
  /\ job.stage = "rendered"
  /\ DOMAIN filters = DOMAIN DEFAULT_FILTERS \cup {"currency", "date"}

\* app.py has answered a request with its registry in place.
C8_WitnessApp ==
  /\ script = "app" /\ appPc = "serving"
  /\ \E t \in DOMAIN threads : threads[t].pc = "done"
  /\ DOMAIN app_filters = DOMAIN DEFAULT_FILTERS \cup {"currency", "date_format"}

\* C9: no shared state is mutated by rendering or serving.  While an
\* application serves, whatever requests it has handled or is handling,
\* PRODUCTS and every product in it are what the module defined, and no
\* step changes the list; no step after the import of jinja2-example.py
\* (so no render call) changes its sample context dictionary.
C9_NoSharedStateMutated ==
  /\ [](appPc = "serving" => PRODUCTS = InitialProducts(script))
  /\ [][/\ appPc = "serving" => PRODUCTS' = PRODUCTS
        /\ importPc = "ready" => module_data' = module_data]_vars

\* A product page and a filtered product list have been served.
C9_Witness ==
  /\ appPc = "serving"
  /\ threads[1].pc = "done" /\ threads[1].req.path = "/product"
  /\ threads[1].resp.status = 200
  /\ threads[2].pc = "done" /\ threads[2].req.path = "/api/products"
  /\ Truthy(threads[2].req.category)

\* The sample context dictionary after a render call with one.
C9_WitnessRender ==
  /\ importPc = "ready" /\ job.stage = "rendered"
  /\ module_data.user_data = job.ctx

\* r1 and r2 apart from the wall clock they show.
SameButClock(r1, r2) == [r1 EXCEPT !.now = 0] = [r2 EXCEPT !.now = 0]

\* C10: handlers are safe under concurrency.  However the steps of the
\* threads interleave, the response a thread has computed is, apart from the
\* wall clock it shows, the response to its request of a server that handles
\* nothing else.
C10_SafeUnderConcurrency ==
  appPc = "serving" =>
    \A t \in DOMAIN threads :
      threads[t].pc = "done" =>
        SameButClock(threads[t].resp, Alone(script, threads[t].req))

\* A thread has answered with the whole list while another is in the
\* middle of filtering it.
C10_Witness ==
  /\ appPc = "serving" /\ script = "app"
  /\ threads[1].pc = "done" /\ threads[1].req.path = "/"
  /\ Len(threads[1].resp.body.products) = 3
  /\ threads[2].pc = "running" /\ threads[2].req.path = "/api/products"
  /\ threads[2].i = 3

\* -------------------------------------------------- the document generator

\* The runs of create_sample_documents on one templates directory.
MaxGenerators == 2

\* disk: dir says whether ./templates exists; template is the state of
\* contract_template.docx in it (absent, saved, or partial: what a save
\* that failed half-way leaves); saves counts the saves of the template
\* that succeeded; overwritten says that a save of the template began when
\* the file existed.

\* A run: pc is the line it is at, exc the exception it raised and
\* raised_in the function that raised it, called the generate_* functions
\* it has called, printed the lines it has printed; created says that it ran
\* create_contract_template, raced that it found no template while another
\* run was between finding none and saving one.
NewRun ==
  [pc |-> "l330", exc |-> "", raised_in |-> "", called |-> <<>>, printed |-> <<>>,
   created |-> FALSE, raced |-> FALSE]

GenerateCalls == {"generate_contract", "generate_report", "generate_letter"}

\* except Exception as e: the exception exc, raised in a call of the try
\* block, is caught at line 417.
Retried(g, exc, where) ==
  [g EXCEPT !.pc = "l404", !.exc = exc, !.raised_in = where]
Caught(g, exc, where) ==
  [g EXCEPT !.pc = "l418", !.exc = exc, !.raised_in = where]

\* An exception raised outside the try block leaves create_sample_documents.
Propagated(g, exc, where) ==
  [g EXCEPT !.pc = "propagated", !.exc = exc, !.raised_in = where]

\* line 44: if not os.path.exists(template_path)
AlwaysCreate(d) == TRUE
NeedsTemplate(d) == d.template = "absent"

InitDocs ==
  /\ RenderIdle
  /\ FmtIdle
  /\ WebIdle
  /\ CallIdle
  /\ disk \in {NoDisk, [NoDisk EXCEPT !.dir = "present"],
               [NoDisk EXCEPT !.dir = "present", !.template = "saved"]}
  /\ gens = [p \in 1..MaxGenerators |-> NewRun]

\* generator = WordDocumentGenerator(): __init__ calls ensure_templates_dir,
\* which tests os.path.exists(self.templates_dir).
ensure_templates_dir(p) ==
  /\ gens[p].pc = "l330"
  /\ gens' = [gens EXCEPT ![p].pc = IF disk.dir = "absent" THEN "l28" ELSE "l404"]
  /\ UNCHANGED <<callVars, renderVars, fmtVars, webVars, disk>>

\* line 28: os.makedirs(self.templates_dir), which raises FileExistsError
\* when the directory exists and OSError when it cannot be created; then
\* the print of line 29.
makedirs(p) ==
  /\ gens[p].pc = "l28"
  /\ \E ok \in BOOLEAN :
       IF disk.dir = "present"
       THEN /\ gens' = [gens EXCEPT ![p] = Propagated(@, "FileExistsError", "__init__")]
            /\ disk' = disk
       ELSE IF ok
       THEN /\ disk' = [disk EXCEPT !.dir = "present"]
            /\ gens' = [gens EXCEPT ![p].pc = "l404",
                                    ![p].printed = Append(@, "created_dir")]
       ELSE /\ gens' = [gens EXCEPT ![p] = Propagated(@, "OSError", "__init__")]
            /\ disk' = disk
  /\ UNCHANGED <<callVars, renderVars, fmtVars, webVars>>

\* lines 404-408 and 43-44: the try block is entered, generate_contract is
\* called and looks for the template.
generate_contract(p) ==
  /\ gens[p].pc = "l404"
  /\ gens' = [gens EXCEPT
       ![p].printed = Append(@, "generating"),
       ![p].called = Append(@, "generate_contract"),
       ![p].pc = IF NeedsTemplate(disk) THEN "l45" ELSE "l48",
       ![p].raced = \/ @
                    \/ /\ NeedsTemplate(disk)
                       /\ \E q \in DOMAIN gens \ {p} : gens[q].pc = "l45"]
  /\ UNCHANGED <<callVars, renderVars, fmtVars, webVars, disk>>

\* line 45: create_contract_template builds the document and saves it
\* (line 117); the save succeeds, or fails before it has written anything, or
\* fails leaving a partial file.
create_contract_template(p) ==
  /\ gens[p].pc = "l45"
  /\ \E outcome \in {"saved", "failed", "partial"} :
       LET began == [disk EXCEPT !.overwritten = @ \/ disk.template # "absent"]
           g == [gens[p] EXCEPT !.created = TRUE]
       IN  CASE outcome = "saved" ->
                  /\ disk' = [began EXCEPT !.template = "saved", !.saves = @ + 1]
                  /\ gens' = [gens EXCEPT ![p] =
                       [g EXCEPT !.pc = "l48", !.printed = Append(@, "template_created")]]
             [] outcome = "partial" ->
                  /\ disk' = [began EXCEPT !.template = "partial"]
                  /\ gens' = [gens EXCEPT ![p] = Caught(g, "OSError", "generate_contract")]
             [] OTHER ->
                  /\ disk' = disk
                  /\ gens' = [gens EXCEPT ![p] = Caught(g, "OSError", "generate_contract")]
  /\ UNCHANGED <<callVars, renderVars, fmtVars, webVars>>

\* lines 48-54: DocxTemplate(template_path), the context, doc.render(context),
\* which cannot read a partial file.
render_contract(p) ==
  /\ gens[p].pc = "l48"
  /\ gens' = [gens EXCEPT ![p] =
       IF disk.template = "saved" THEN [@ EXCEPT !.pc = "l61"]
       ELSE Caught(@, "PackageNotFoundError", "generate_contract")]
  /\ UNCHANGED <<callVars, renderVars, fmtVars, webVars, disk>>

\* lines 61-63: doc.save(output_path) and the print.
save_contract(p) ==
  /\ gens[p].pc = "l61"
  /\ \E ok \in BOOLEAN :
       gens' = [gens EXCEPT ![p] =
         IF ok THEN [@ EXCEPT !.pc = "l409", !.printed = Append(@, "contract_generated")]
         ELSE Caught(@, "OSError", "generate_contract")]
  /\ UNCHANGED <<callVars, renderVars, fmtVars, webVars, disk>>

\* line 409: generate_report builds the document, saves it and prints.
generate_report(p) ==
  /\ gens[p].pc = "l409"
  /\ \E ok \in BOOLEAN :
       LET g == [gens[p] EXCEPT !.called = Append(@, "generate_report")]
       IN  gens' = [gens EXCEPT ![p] =
             IF ok THEN [g EXCEPT !.pc = "l410", !.printed = Append(@, "report_generated")]
             ELSE Caught(g, "OSError", "generate_report")]
  /\ UNCHANGED <<callVars, renderVars, fmtVars, webVars, disk>>

\* line 410: generate_letter builds the document, saves it and prints.
generate_letter(p) ==
  /\ gens[p].pc = "l410"
  /\ \E ok \in BOOLEAN :
       LET g == [gens[p] EXCEPT !.called = Append(@, "generate_letter")]
       IN  gens' = [gens EXCEPT ![p] =
             IF ok THEN [g EXCEPT !.pc = "l412", !.printed = Append(@, "letter_generated")]
             ELSE Caught(g, "OSError", "generate_letter")]
  /\ UNCHANGED <<callVars, renderVars, fmtVars, webVars, disk>>

\* lines 412-415: the documents are listed; create_sample_documents returns.
print_generated(p) ==
  /\ gens[p].pc = "l412"
  /\ gens' = [gens EXCEPT ![p].pc = "returned", ![p].printed = Append(@, "success")]
  /\ UNCHANGED <<callVars, renderVars, fmtVars, webVars, disk>>

\* line 418: print(f"Error generating documents: {e}"); the function returns.
print_error(p) ==
  /\ gens[p].pc = "l418"
  /\ gens' = [gens EXCEPT ![p].pc = "returned", ![p].printed = Append(@, "error")]
  /\ UNCHANGED <<callVars, renderVars, fmtVars, webVars, disk>>

NextDocs ==
  \E p \in 1..MaxGenerators :
    \/ ensure_templates_dir(p) \/ makedirs(p)
    \/ generate_contract(p) \/ create_contract_template(p) \/ render_contract(p)
    \/ save_contract(p) \/ generate_report(p) \/ generate_letter(p)
    \/ print_generated(p) \/ print_error(p)

SpecDocs == InitDocs /\ [][NextDocs]_vars

\* The number of times line is in printed.
Lines(printed, line) == Cardinality({i \in 1..Len(printed) : printed[i] = line})

\* C11: in create_sample_documents an exception raised by generate_contract,
\* generate_report or generate_letter is caught at the top level: the run
\* goes to the handler and from there returns normally, having printed one
\* error line and no list of documents; the function that raised is the last
\* generate_* call of the run, and no generate_* function is called twice.
C11_CaughtReportedNotRetried ==
  \A p \in DOMAIN gens :
    LET g == gens[p]
    IN  /\ \A i, j \in 1..Len(g.called) : g.called[i] = g.called[j] => i = j
        /\ Lines(g.printed, "error") <= 1
        /\ g.raised_in \in GenerateCalls =>
             /\ g.pc \in {"l418", "returned"}
             /\ g.called[Len(g.called)] = g.raised_in
             /\ Lines(g.printed, "success") = 0
             /\ g.pc = "returned" => Lines(g.printed, "error") = 1

\* generate_report has raised: generate_letter was not called, and the run
\* has returned after its error line.
C11_Witness ==
  \E p \in DOMAIN gens :
    /\ gens[p].pc = "returned"
    /\ gens[p].raised_in = "generate_report"
    /\ gens[p].called = <<"generate_contract", "generate_report">>
    /\ Lines(gens[p].printed, "error") = 1

\* C18 as stated: every I/O failure during create_sample_documents, the
\* failure to create the templates directory included, is caught and
\* reported as a printed line, and none leaves create_sample_documents.
C18_EveryFailureCaught ==
  \A p \in DOMAIN gens :
    gens[p].exc # "" =>
      /\ gens[p].pc \in {"l418", "returned"}
      /\ gens[p].pc = "returned" => Lines(gens[p].printed, "error") = 1

\* C19 as stated: over the calls of generate_contract on one templates
\* directory create_contract_template runs at most once, and an existing
\* template file is never overwritten or modified.
C19_CreatedAtMostOnce ==
  /\ Cardinality({p \in DOMAIN gens : gens[p].created}) <= 1
  /\ ~disk.overwritten
  /\ (disk.template = "saved" /\ disk.saves = 0) =>
       \A p \in DOMAIN gens : ~gens[p].created

\* No call has found the template absent while another call was between
\* finding it absent and saving it.
NoRace == \A p \in DOMAIN gens : ~gens[p].raced

\* C19, amended: a call runs create_contract_template exactly when it finds
\* no template file.  When no call looks for the file between another
\* call's look and its save, the template is saved at most once, the calls
\* after that save do not run create_contract_template, and an existing
\* file is never overwritten nor modified; a call whose save fails runs
\* create_contract_template and so may the next.
C19_CreatedWhenAbsent ==
  /\ [][\A p \in DOMAIN gens :
          (gens[p].pc = "l404" /\ gens'[p].pc # "l404") =>
            (gens'[p].pc = "l45" <=> disk.template = "absent")]_vars
  /\ [][\A p \in DOMAIN gens :
          (gens[p].pc # "l45" /\ gens'[p].pc = "l45") => disk.template = "absent"]_vars
  /\ [](NoRace =>
          /\ disk.saves <= 1
          /\ ~disk.overwritten
          /\ Cardinality({p \in DOMAIN gens :
                            gens[p].created /\ "template_created" \in
                               {gens[p].printed[i] : i \in 1..Len(gens[p].printed)}}) <= 1
          /\ (disk.template = "saved" /\ disk.saves = 0) =>
               \A p \in DOMAIN gens : ~gens[p].created)
  /\ [][NoRace => (disk'.template # disk.template => disk.template = "absent")]_vars

\* One run has created the template and another has used it as it was.
C19_Witness ==
  /\ NoRace
  /\ disk.saves = 1 /\ disk.template = "saved"
  /\ gens[1].created /\ gens[1].pc = "returned"
  /\ ~gens[2].created /\ gens[2].pc = "returned"
  /\ Lines(gens[2].printed, "contract_generated") = 1

\* C20 as stated: ensure_templates_dir never fails because the directory
\* exists, and after it the directory exists, also when two generators are
\* constructed at once on the same directory.
C20_NeverFailsOnExisting ==
  \A p \in DOMAIN gens :
    /\ gens[p].exc # "FileExistsError"
    /\ gens[p].pc \notin {"l330", "l28", "propagated"} => disk.dir = "present"

\* The threads that have computed the response to a request for path.
Answered(path) ==
  {t \in DOMAIN threads : threads[t].pc = "done" /\ threads[t].req.path = path}

SameIgnoringCase(a, b) ==
  \/ a = b
  \/ {a, b} \in {{"Electronics", "ELECTRONICS"}, {"Electronics", "electronics"},
                 {"ELECTRONICS", "electronics"}}

\* C13: get_products of app.py.  With a category that is present and not
\* empty, data is the products of that category, compared without case, in
\* the order of PRODUCTS (none when none match); with no category or the
\* empty one, data is all of PRODUCTS; status is 'success' and count the
\* length of data in every case.
C13_GetProductsFilter ==
  (appPc = "serving" /\ script = "app") =>
    \A t \in Answered("/api/products") :
      LET category == threads[t].req.category
          body == threads[t].resp.body
          wanted(p) == SameIgnoringCase(p.category, category.s[1])
      IN  /\ threads[t].resp.status = 200
          /\ body.status = "success"
          /\ body.count = Len(body.data)
          /\ body.data = IF category = None \/ category = VStr(<<>>)
                         THEN PRODUCTS ELSE SelectSeq(PRODUCTS, wanted)

\* ?category=ELECTRONICS has given the one product of Electronics, and
\* ?category=toys none.
C13_Witness ==
  /\ appPc = "serving" /\ script = "app"
  /\ \E t \in Answered("/api/products") :
       /\ threads[t].req.category = VTxt("ELECTRONICS")
       /\ threads[t].resp.body.count = 1
       /\ threads[t].resp.body.data[1].category = "Electronics"
  /\ \E t \in Answered("/api/products") :
       /\ threads[t].req.category = VTxt("toys")
       /\ threads[t].resp.body.count = 0

\* The ids of the products of a list.
ProductIdsOf(data) == {data[i].id : i \in 1..Len(data)}

\* C17 as stated: for every request the three /api/products give the same
\* set of products and the same count under the same response key.
C17_ListingsAgree ==
  appPc = "serving" =>
    \A t \in Answered("/api/products") :
      \A other \in WebApps :
        LET mine == threads[t].resp.body
            theirs == Alone(other, threads[t].req).body
        IN  /\ mine.count = theirs.count
            /\ ProductIdsOf(mine.data) = ProductIdsOf(theirs.data)
            /\ mine.key = theirs.key

\* ------------------------------------------------------- loops and pages

\* The places of lexeme x in a text, in order.
Positions(text, x) ==
  LET at(i) == text[i] = x
  IN  SelectSeq(Tuple([i \in 1..Len(text) |-> i], Len(text)), at)

\* The place of the first x after place i of a text.
NextAt(text, i, x) ==
  LET after == {j \in (i + 1)..Len(text) : text[j] = x}
  IN  CHOOSE j \in after : \A k \in after : j <= k

\* The items of key k of each table in turn, in one sequence: the item and
\* whether it is the last of its table.
RECURSIVE ItemsOfTables(_, _)
ItemsOfTables(tables, k) ==
  IF tables = <<>> THEN <<>>
  ELSE LET l == Items(GetItem(tables[1], k))
       IN  Tuple([j \in 1..Len(l) |-> [item |-> l[j], last |-> j = Len(l)]], Len(l))
           \o ItemsOfTables(Tail(tables), k)

HasReturnedText(j) == j.stage \in {"rendered", "opened", "done"}

\* C14: in the SQL schema written from sql_template every column definition
\* of a table but the last is followed by a comma and the last is not, and
\* so are the tuples of its sample rows; in the list printed from
\* list_template the recipients are numbered 1..n in the order of the list.
C14_LoopIndexAndLast ==
  /\ (job.site = "comprehensive_demo_sql" /\ HasReturnedText(job))
     => LET out == job.out
            starts == Positions(out, ColumnStart)
            columns == ItemsOfTables(job.ctx.tables.l, "columns")
            tuples == Positions(out, RowStart)
            rows == ItemsOfTables(job.ctx.tables.l, "sample_data")
        IN  /\ Len(starts) = Len(columns)
            /\ \A k \in 1..Len(starts) :
                 /\ out[starts[k] + 1] = columns[k].item.m.name.s[1]
                 /\ (out[NextAt(out, starts[k], "\n") - 1] = Comma) <=> ~columns[k].last
            /\ Len(tuples) = Len(rows)
            /\ \A k \in 1..Len(tuples) :
                 /\ out[tuples[k] + 2] = rows[k].item.m.email.s[1]
                 /\ (out[NextAt(out, tuples[k], ")") + 1] = Comma) <=> ~rows[k].last
  /\ (job.site = "simple_demo_list" /\ HasReturnedText(job))
     => LET out == job.out
            dots == Positions(out, ". ")
            recipients == job.ctx.recipients.l
        IN  /\ Len(dots) = Len(recipients)
            /\ \A k \in 1..Len(dots) :
                 /\ out[dots[k] - 1] = ToString(k)
                 /\ out[dots[k] + 1] = recipients[k].m.name.s[1]

\* The schema of the seven columns and two sample rows is in the file.
C14_Witness ==
  /\ job.site = "comprehensive_demo_sql" /\ job.stage = "done"
  /\ job.ctx = sql_data(job.now)
  /\ files["database_schema.sql"] = TextFile(job.out)
  /\ Len(Positions(job.out, Comma)) = 6 + 6 + 1
\* The list of the four recipients is printed.
C14_WitnessList ==
  /\ job.site = "simple_demo_list" /\ job.stage = "done"
  /\ job.ctx = recipients_data
  /\ Len(Positions(job.out, ". ")) = 4

\* C15: the product catalog rendered with products = [], base.html holding
\* the base template, completes without error, with the 'No products
\* available.' card and no product card.
C15_EmptyCatalogCard ==
  (/\ job.site = "render_product_catalog" /\ job.src = product_catalog_template
   /\ job.ctx.products = VList(<<>>)
   /\ files["base.html"] = TemplateFile(base_template)
   /\ HasRendered(job))
  => /\ job.stage # "raised"
     /\ HasLexeme(job.out, no_products_card)
     /\ ~HasLexeme(job.out, DataAt(product_card, 1))

\* C16: the parent that the templates of jinja2-example.py extend is found
\* whatever the working directory holds: a render function called with the
\* module's template and data does not raise TemplateNotFound.
C16_ParentResolves ==
  (/\ job.site \in EnvSites /\ job.src = SiteSource(job.site)
   /\ job.ctx = SiteData(job.site, job.now, module_data)
   /\ HasRendered(job))
  => job.exc # "TemplateNotFound"

\* ------------------------------------------- the functions, called alone

MaxMilestones == 3

\* A milestone of contract_data.
Milestone(description, due_date) ==
  VDict(<<"description", "due_date">>,
        [description |-> VTxt(description), due_date |-> VTxt(due_date)])
\* One that lacks its due date.
Undated(description) == VDict(<<"description">>, [description |-> VTxt(description)])

MilestoneValues ==
  {Milestone("Design approval and wireframes", "2024-02-15"),
   Milestone("Frontend development completion", "2024-04-15"),
   Undated("Final delivery and launch")}
MilestoneLists == UNION {[1..n -> MilestoneValues] : n \in 0..MaxMilestones}

\* The lines of milestones[k..], the first numbered i.
RECURSIVE MilestoneLines(_, _, _)
MilestoneLines(milestones, k, i) ==
  IF k > Len(milestones) THEN Ok(<<>>)
  ELSE LET m == milestones[k]
           rest == MilestoneLines(milestones, k + 1, i + 1)
       IN  IF ~{"description", "due_date"} \subseteq DOMAIN m.m THEN Raise("KeyError")
           ELSE IF rest.exc # "" THEN rest
           ELSE Ok(<<<<ToString(i), ". ">> \o ToText(m.m.description)
                     \o <<" - Due: ">> \o ToText(m.m.due_date)>> \o rest.v)

\* '\n'.join(lines)
RECURSIVE JoinLines(_)
JoinLines(lines) ==
  IF lines = <<>> THEN <<>>
  ELSE IF Len(lines) = 1 THEN lines[1]
  ELSE lines[1] \o <<"\n">> \o JoinLines(Tail(lines))

NoMilestones == "No specific milestones defined."

\* format_milestones with enumerate(milestones), which counts from 0.
format_milestones_from0(milestones) ==
  IF milestones = <<>> THEN Ok(<<NoMilestones>>)
  ELSE LET lines == MilestoneLines(milestones, 1, 0)
       IN  IF lines.exc # "" THEN lines ELSE Ok(JoinLines(lines.v))

\* word-document-generator.py, format_milestones.
format_milestones(milestones) ==
  IF milestones = <<>> THEN Ok(<<NoMilestones>>)
  ELSE LET lines == MilestoneLines(milestones, 1, 1)
       IN  IF lines.exc # "" THEN lines ELSE Ok(JoinLines(lines.v))

\* datetime.fromisoformat on 'YYYY-MM-DD', or on that with 'T', a time and
\* an offset after it.
IsIsoDateTime(s) ==
  /\ Len(s) \in {5, 7, 8}
  /\ IsIsoDate(SubSeq(s, 1, 5))
  /\ Len(s) > 5 => (s[6] = "T" /\ s[7] \in {"10:30:00", "00:00:00"})
  /\ Len(s) = 8 => s[8] = "+00:00"

\* str.replace('Z', '+00:00')
ReplaceZ(s) == [i \in 1..Len(s) |-> IF s[i] = "Z" THEN "+00:00" ELSE s[i]]

\* The try block of date_format_filter.
date_format_filter_try(date_str) ==
  IF date_str.t = "undefined" THEN Raise("UndefinedError")
  ELSE IF date_str.t # "str" THEN Raise("AttributeError")
  ELSE LET s == Tuple(ReplaceZ(date_str.s), Len(date_str.s))
       IN  IF IsIsoDateTime(s)
           THEN Ok(VStr(StrfTime(FromIsoFormat(s), "%B %d, %Y")))
           ELSE Raise("ValueError")

\* date_format_filter with no except clause.
date_format_filter_uncaught(date_str) == date_format_filter_try(date_str)

\* app.py, date_format_filter: whatever the try block raises, the argument
\* is returned.
date_format_filter(date_str) ==
  LET r == date_format_filter_try(date_str)
  IN  IF r.exc # "" THEN Ok(date_str) ELSE r

\* The values the filter is given.
IsoStrings ==
  {VStr(<<"2024", "-", "01", "-", "15">>),
   VStr(<<"2025", "-", "12", "-", "31">>),
   VStr(<<"2024", "-", "06", "-", "05", "T", "10:30:00">>),
   VStr(<<"2024", "-", "06", "-", "05", "T", "10:30:00", "Z">>),
   VStr(<<"2024", "-", "06", "-", "05", "T", "00:00:00", "+00:00">>)}
OtherValues ==
  {VStr(<<>>), VTxt("tomorrow"), VStr(<<"2024", "-", "13", "-", "45">>),
   VStr(<<"2024", "-", "01", "-", "15", "Z">>), VStr(<<"2024", "/", "01", "/", "15">>),
   VInt(20240115), None, Undefined, VBool(TRUE), Now(0), VList(<<>>)}

MaxItems == 2

\* What python-docx adds to a document: a heading, a paragraph of text, or
\* a table of rows of cells; a text is a sequence of lexemes.
Heading(text, level) == [k |-> "heading", text |-> text, level |-> level, rows |-> <<>>]
Paragraph(text) == [k |-> "paragraph", text |-> text, level |-> 0, rows |-> <<>>]
DocTable(rows) == [k |-> "table", text |-> <<>>, level |-> 0, rows |-> rows]

\* A key that a dict is not given.
Missing == [t |-> "missing"]
\* The dict of the keys ks whose value is given.
DictOf(ks, full) ==
  LET given(k) == full[k] # Missing
      has == SelectSeq(ks, given)
  IN  VDict(has, [k \in {has[i] : i \in 1..Len(has)} |-> full[k]])
\* dict.get(key, default)
Get(dict, key, default) == IF key \in DOMAIN dict.m THEN dict.m[key] ELSE default

\* An item of report_data['financials'].
FinancialItem(period, budget, actual) ==
  DictOf(<<"period", "budget", "actual">>,
         [period |-> period, budget |-> budget, actual |-> actual])
FinancialItems ==
  {FinancialItem(p, b, a) :
     p \in {VTxt("January"), Missing},
     b \in {VInt(50000), VFloat(1, 1000), Missing},
     a \in {VInt(48000), VInt(52000), VFloat(123456, 100), Missing}}
FinancialLists == UNION {[1..n -> FinancialItems] : n \in 0..MaxItems}

\* -x and x - y.  The difference is taken exactly; the floats of the items
\* tried differ from it by less than what two decimals show.
Negated(x) == IF x.t = "float" THEN VFloat(-x.num, x.den) ELSE VInt(-Num(x))
Minus(x, y) == Plus(x, Negated(y))

\* f"${value:,.2f}"
MoneyText(v) == <<"$">> \o FormatGrouped(AsAmount(v))

\* budget - actual, the operands exchanged.
VarianceSwapped(item) == Minus(Get(item, "budget", VInt(0)), Get(item, "actual", VInt(0)))
\* line 263: variance = item.get('actual', 0) - item.get('budget', 0)
VarianceOf(item) == Minus(Get(item, "actual", VInt(0)), Get(item, "budget", VInt(0)))

\* lines 258-267: the row of an item.
FinancialRow(item) ==
  LET variance == VarianceOf(item)
      variance_text == MoneyText(variance)
  IN  <<ToText(Get(item, "period", VTxt("N/A"))),
        MoneyText(Get(item, "budget", VInt(0))),
        MoneyText(Get(item, "actual", VInt(0))),
        IF Num(variance) < 0 THEN <<"(">> \o variance_text \o <<")">> ELSE variance_text>>

FinancialHeader == <<<<"Period">>, <<"Budget">>, <<"Actual">>, <<"Variance">>>>
NoFinancialData == "No financial data available."

\* word-document-generator.py, add_financial_table: the document with what
\* it adds.
add_financial_table(doc, financials) ==
  IF financials = <<>> THEN Append(doc, Paragraph(<<NoFinancialData>>))
  ELSE Append(doc, DocTable(<<FinancialHeader>>
                            \o Tuple([i \in 1..Len(financials) |-> FinancialRow(financials[i])],
                                     Len(financials))))

\* str.replace(a, b) on a text whose lexemes are words and separators.
Replaced(text, a, b) == Tuple([i \in 1..Len(text) |-> IF text[i] = a THEN b ELSE text[i]], Len(text))

\* key.replace('_', ' ').title(), for the keys of the sample data.
TitleOf(key) ==
  CASE key = "code_coverage" -> <<"Code", " ", "Coverage">>
    [] key = "bug_count" -> <<"Bug", " ", "Count">>
    [] key = "Project Manager" -> <<"Project", " ", "Manager">>
    [] key = "Team Size" -> <<"Team", " ", "Size">>
    [] OTHER -> <<key>>

\* add_project_details_table: a header and a row for each key of details.
add_project_details_table(doc, details) ==
  Append(doc, DocTable(<<<<<<"Metric">>, <<"Value">>>>>>
                       \o Tuple([i \in 1..Len(details.ks) |->
                                   <<TitleOf(details.ks[i]), ToText(details.m[details.ks[i]])>>],
                                Len(details.ks))))

\* add_metrics_table: a header and a row for each metric.
add_metrics_table(doc, metrics) ==
  Append(doc, DocTable(<<<<<<"Metric">>, <<"Current Value">>, <<"Target">>>>>>
                       \o Tuple([i \in 1..Len(metrics.ks) |->
                                   LET data == metrics.m[metrics.ks[i]]
                                   IN  <<TitleOf(metrics.ks[i]),
                                         ToText(Get(data, "current", VTxt("N/A"))),
                                         ToText(Get(data, "target", VTxt("N/A")))>>],
                                Len(metrics.ks))))

\* add_risk_section: an introduction and four paragraphs for each risk.
RECURSIVE RiskParagraphs(_)
RiskParagraphs(risk_plan) ==
  IF risk_plan = <<>> THEN <<>>
  ELSE LET risk == risk_plan[1]
       IN  <<Paragraph(<<"Risk: ">> \o ToText(Get(risk, "description", VTxt("N/A")))),
             Paragraph(<<"Impact: ">> \o ToText(Get(risk, "impact", VTxt("N/A")))),
             Paragraph(<<"Mitigation: ">> \o ToText(Get(risk, "mitigation", VTxt("N/A")))),
             Paragraph(<<>>)>>
           \o RiskParagraphs(Tail(risk_plan))
RiskIntroduction ==
  "The following risks have been identified and mitigation strategies are in place:"
add_risk_section(doc, risk_plan) ==
  Append(doc, Paragraph(<<RiskIntroduction>>)) \o RiskParagraphs(risk_plan)

\* add_recommendations_list: a numbered paragraph for each recommendation.
add_recommendations_list(doc, recommendations) ==
  doc \o Tuple([i \in 1..Len(recommendations) |->
                  Paragraph(<<ToString(i), ". ">> \o ToText(recommendations[i]))],
               Len(recommendations))

\* datetime.now().strftime('%Y%m%d')
Ymd(dt) == ToString(dt.y) \o TwoDigits(dt.mo) \o TwoDigits(dt.d)

\* The path with the name as it is given.
DefaultPathUnreplaced(kind, data, key, default, c) ==
  <<kind, "_">> \o ToText(Get(data, key, VTxt(default))) \o <<"_", Ymd(Now(c)), ".docx">>

\* The path a generate function saves to when it is given none:
\* f"{kind}_{name}_{datetime.now().strftime('%Y%m%d')}.docx", where name is
\* data.get(key, default).replace(' ', '_').
DefaultPath(kind, data, key, default, c) ==
  <<kind, "_">> \o Replaced(ToText(Get(data, key, VTxt(default))), " ", "_")
  \o <<"_", Ymd(Now(c)), ".docx">>

\* The names a document is made for.
Names == {VStr(<<"Acme", " ", "Corporation">>), VStr(<<"John", " ", "Q", " ", "Smith">>),
          VTxt("TechCorp")}

\* The output_path argument: None, or a path.
OutputPaths == {None, VTxt("out/document.docx")}

\* datetime.strptime(value, '%Y-%m-%d')
StrpTime(value) ==
  IF value.t # "str" THEN Raise("TypeError")
  ELSE IF IsIsoDate(value.s) THEN Ok(FromIsoFormat(value.s))
  ELSE Raise("ValueError")

\* word-document-generator.py, prepare_contract_context, at wall-clock
\* reading c: the context, or the exception of the first line that fails.
prepare_contract_context(contract_data, c) ==
  LET has(k) == k \in DOMAIN contract_data.m
      start_date == StrpTime(contract_data.m.start_date)
      end_date == StrpTime(contract_data.m.end_date)
      total == contract_data.m.amount
      milestones == format_milestones(Get(contract_data, "milestones", VList(<<>>)).l)
      today == StrfTime(Now(c), "%B %d, %Y")
  IN  IF ~has("start_date") THEN Raise("KeyError")
      ELSE IF start_date.exc # "" THEN start_date
      ELSE IF ~has("end_date") THEN Raise("KeyError")
      ELSE IF end_date.exc # "" THEN end_date
      ELSE IF ~has("client_name") \/ ~has("project_name") \/ ~has("amount")
      THEN Raise("KeyError")
      ELSE IF total.t = "str" THEN Raise("ValueError")
      ELSE IF ~IsNumber(total) THEN Raise("TypeError")
      ELSE IF milestones.exc # "" THEN milestones
      ELSE Ok([client_name |-> ToText(contract_data.m.client_name),
               project_name |-> ToText(contract_data.m.project_name),
               start_date |-> StrfTime(start_date.v, "%B %d, %Y"),
               end_date |-> StrfTime(end_date.v, "%B %d, %Y"),
               total_amount |-> MoneyText(total),
               contract_date |-> today,
               terms |-> ToText(Get(contract_data, "terms",
                                    VTxt("Standard terms and conditions apply."))),
               milestones |-> milestones.v,
               client_signature_date |-> today,
               provider_signature_date |-> today])

\* A placeholder of the contract template.
Ph(name) == "{{" \o name \o "}}"

\* create_contract_template: the document it saves as the template.
contract_template ==
  <<Heading(<<"SERVICE AGREEMENT">>, 0),
    Heading(<<"Contract Details">>, 1),
    DocTable(<<<<<<"Field">>, <<"Value">>>>,
               <<<<"Client Name">>, <<Ph("client_name")>>>>,
               <<<<"Project Name">>, <<Ph("project_name")>>>>,
               <<<<"Start Date">>, <<Ph("start_date")>>>>,
               <<<<"End Date">>, <<Ph("end_date")>>>>,
               <<<<"Total Amount">>, <<Ph("total_amount")>>>>,
               <<<<"Contract Date">>, <<Ph("contract_date")>>>>>>),
    Heading(<<"Terms and Conditions">>, 1),
    Paragraph(<<Ph("terms")>>),
    Heading(<<"Project Milestones">>, 1),
    Paragraph(<<Ph("milestones")>>),
    Heading(<<"Signatures">>, 1),
    Paragraph(<<"Client Signature: _________________">>),
    Paragraph(<<"Date: ", Ph("client_signature_date")>>),
    Paragraph(<<>>),
    Paragraph(<<"Service Provider Signature: _________________">>),
    Paragraph(<<"Date: ", Ph("provider_signature_date")>>)>>

\* A text with its placeholders filled from the context.
RECURSIVE Filled(_, _)
Filled(text, context) ==
  IF text = <<>> THEN <<>>
  ELSE LET names == {n \in DOMAIN context : Ph(n) = text[1]}
       IN  (IF names = {} THEN <<text[1]>> ELSE context[CHOOSE n \in names : TRUE])
           \o Filled(Tail(text), context)

\* doc.render(context): the template with every text filled.
RenderDocx(doc, context) ==
  Tuple([i \in 1..Len(doc) |->
           [doc[i] EXCEPT
              !.text = Filled(@, context),
              !.rows = Tuple([r \in 1..Len(@) |->
                                Tuple([x \in 1..Len(@[r]) |-> Filled(@[r][x], context)],
                                      Len(@[r]))],
                             Len(@))]],
        Len(doc))

\* contract_data: the sample's, for a client.
ContractData(client_name, project_name, start_date, end_date, total, milestones) ==
  DictOf(<<"client_name", "project_name", "start_date", "end_date", "amount", "terms",
           "milestones">>,
         [client_name |-> client_name, project_name |-> project_name,
          start_date |-> start_date, end_date |-> end_date, amount |-> total,
          terms |-> VTxt("This agreement outlines the terms [...] requirements."),
          milestones |-> milestones])

SampleStart == VStr(<<"2024", "-", "01", "-", "15">>)
SampleEnd == VStr(<<"2024", "-", "06", "-", "15">>)
SampleProject == VTxt("Website Redesign Project")
SampleAmount == VFloat(5000000, 100)
SampleMilestones ==
  VList(<<Milestone("Design approval and wireframes", "2024-02-15"),
          Milestone("Frontend development completion", "2024-04-15")>>)

\* The contract data with every required key and well-formed dates.
GoodContracts ==
  {ContractData(n, SampleProject, SampleStart, SampleEnd, SampleAmount, ms) :
     n \in Names, ms \in {SampleMilestones, Missing}}
\* Those that lack a required key, or whose date is not YYYY-MM-DD.
BadContracts ==
  LET n == CHOOSE x \in Names : Len(x.s) = 3
      slashed == VStr(<<"01", "/", "15", "/", "2024">>)
  IN  {ContractData(Missing, SampleProject, SampleStart, SampleEnd, SampleAmount, Missing),
       ContractData(n, Missing, SampleStart, SampleEnd, SampleAmount, Missing),
       ContractData(n, SampleProject, Missing, SampleEnd, SampleAmount, Missing),
       ContractData(n, SampleProject, SampleStart, Missing, SampleAmount, Missing),
       ContractData(n, SampleProject, SampleStart, SampleEnd, Missing, Missing),
       ContractData(n, SampleProject, slashed, SampleEnd, SampleAmount, Missing),
       ContractData(n, SampleProject, SampleStart, VTxt("June 15, 2024"), SampleAmount,
                    SampleMilestones)}

\* report_data: the sample's, with the keys that decide its sections given
\* or not.
SampleMetrics ==
  VDict(<<"code_coverage", "bug_count">>,
        [code_coverage |-> VDict(<<"current", "target">>,
                                 [current |-> VInt(85), target |-> VInt(90)]),
         bug_count |-> VDict(<<"current">>, [current |-> VInt(12)])])
SampleDetails ==
  VDict(<<"Project Manager", "Team Size">>,
        ("Project Manager" :> VTxt("Sarah Johnson")) @@ ("Team Size" :> VTxt("8 developers")))
SampleRisks ==
  VList(<<VDict(<<"description", "impact">>,
                [description |-> VTxt("Vendor delay"), impact |-> VTxt("High")])>>)
SampleRecommendations ==
  VList(<<VTxt("Increase code coverage to meet target of 90%"),
          VTxt("Implement additional automated testing")>>)

ReportData(project_name, metrics, include_financials, financials, status, recommendations) ==
  DictOf(<<"title", "project_name", "summary", "project_details", "metrics",
           "include_financials", "financials", "status", "risk_plan", "recommendations">>,
         [title |-> VTxt("Q1 2024 Project Status Report"), project_name |-> project_name,
          summary |-> VTxt("The e-commerce platform development project [...] launch date."),
          project_details |-> SampleDetails, metrics |-> metrics,
          include_financials |-> include_financials, financials |-> financials,
          status |-> status, risk_plan |-> SampleRisks,
          recommendations |-> recommendations])

Reports ==
  {ReportData(n, m, i, f, st, r) :
     n \in {VStr(<<"E-commerce", " ", "Platform", " ", "Development">>), Missing},
     m \in {SampleMetrics, Missing},
     i \in {VBool(TRUE), VBool(FALSE), Missing},
     f \in {VList(<<FinancialItem(VTxt("January"), VInt(50000), VInt(48000))>>),
            VList(<<>>), Missing},
     st \in {VTxt("At Risk"), VTxt("On Track"), Missing},
     r \in {SampleRecommendations, Missing}}

\* letter_data: the sample's for a recipient, or with no key at all.
LetterData(recipient_name, given) ==
  LET opt(v) == IF given THEN v ELSE Missing
  IN  DictOf(<<"company_name", "company_address", "recipient_name", "recipient_address",
               "sender_name", "body">>,
             [company_name |-> opt(VTxt("TechCorp Solutions")),
              company_address |-> opt(VTxt("123 Business Ave\nSan Francisco, CA 94105")),
              recipient_name |-> recipient_name,
              recipient_address |-> opt(VTxt("456 Corporate Blvd\nNew York, NY 10001")),
              sender_name |-> opt(VTxt("Jane Doe")),
              body |-> opt(VTxt("I am writing to follow up [...] mutual goals."))])
Letters == {LetterData(n, g) : n \in Names \cup {Missing}, g \in BOOLEAN}

\* lines 299-317 of generate_letter: the paragraphs of the letter.
LetterParagraphs(letter_data, c) ==
  LET get(k, d) == ToText(Get(letter_data, k, VTxt(d)))
  IN  <<Paragraph(get("company_name", "Company Name") \o <<"\n">>
                  \o get("company_address", "Company Address")),
        Paragraph(<<"\n">> \o StrfTime(Now(c), "%B %d, %Y")),
        Paragraph(<<"\n">> \o get("recipient_name", "Recipient Name")),
        Paragraph(get("recipient_address", "Recipient Address")),
        Paragraph(<<"\nDear ">> \o get("recipient_name", "Recipient") \o <<",">>),
        Paragraph(get("body", "Letter body content.")),
        Paragraph(<<"\nSincerely,\n">> \o get("sender_name", "Sender Name"))>>

\* line 182, without the test of include_financials.
HasFinancials(report_data) == "financials" \in DOMAIN report_data.m
\* line 182: 'financials' in report_data and report_data.get('include_financials', False)
WantsFinancials(report_data) ==
  /\ "financials" \in DOMAIN report_data.m
  /\ Truthy(Get(report_data, "include_financials", VBool(FALSE)))

\* A call of a function: its argument, the document it builds, the path it
\* chose, what it returned or raised, and the disk and the documents as they
\* were when it was called.
NewCall(fn, data, output_path) ==
  [fn |-> fn, pc |-> "called", data |-> data, output_path |-> output_path,
   doc |-> <<>>, context |-> <<>>, path |-> <<>>, ret |-> None, exc |-> "",
   before |-> [disk |-> disk, docs |-> docs]]

Returns(v) == [call EXCEPT !.pc = "returned", !.ret = v]
Raises(exc) == [call EXCEPT !.pc = "raised", !.exc = exc]

\* docs with the document at path.
Saved(path, doc) ==
  [p \in DOMAIN docs \cup {path} |-> IF p = path THEN doc ELSE docs[p]]

\* The documents there are before the call: none, or one at the path that
\* the caller names.
OldDocument == <<Paragraph(<<"An earlier document.">>)>>
InitCalls ==
  /\ RenderIdle
  /\ FmtIdle
  /\ WebIdle
  /\ gens = <<>>
  /\ disk \in {[NoDisk EXCEPT !.dir = "present"],
               [NoDisk EXCEPT !.dir = "present", !.template = "saved"]}
  /\ call = NoCall
  /\ docs \in {[p \in {} |-> <<>>], [p \in {<<"out/document.docx">>} |-> OldDocument]}

Others == <<renderVars, fmtVars, webVars, gens>>

\* format_milestones(milestones) is called.
CallFormatMilestones ==
  /\ call = NoCall
  /\ \E milestones \in MilestoneLists :
       LET r == format_milestones(milestones)
       IN  call' = [NewCall("format_milestones", VList(milestones), None) EXCEPT
                      !.pc = IF r.exc = "" THEN "returned" ELSE "raised",
                      !.ret = IF r.exc = "" THEN VStr(r.v) ELSE None,
                      !.exc = r.exc]
  /\ UNCHANGED <<Others, disk, docs>>

\* The template engine of app.py applies date_format to a value.
CallDateFormatFilter ==
  /\ call = NoCall
  /\ \E date_str \in IsoStrings \cup OtherValues :
       LET r == date_format_filter(date_str)
       IN  call' = [NewCall("date_format_filter", date_str, None) EXCEPT
                      !.pc = IF r.exc = "" THEN "returned" ELSE "raised",
                      !.ret = r.v, !.exc = r.exc]
  /\ UNCHANGED <<Others, disk, docs>>

\* add_financial_table(doc, financials) is called on a document that has
\* its 'Financial Summary' heading.
CallAddFinancialTable ==
  /\ call = NoCall
  /\ \E financials \in FinancialLists :
       call' = [NewCall("add_financial_table", VList(financials), None) EXCEPT
                  !.pc = "returned",
                  !.doc = add_financial_table(<<Heading(<<"Financial Summary">>, 1)>>,
                                              financials)]
  /\ UNCHANGED <<Others, disk, docs>>

\* generate_contract(contract_data, output_path) is called.
CallGenerateContract ==
  /\ call = NoCall
  /\ \E data \in GoodContracts \cup BadContracts, output_path \in OutputPaths :
       call' = NewCall("generate_contract", data, output_path)
  /\ UNCHANGED <<Others, disk, docs>>

\* line 44: if not os.path.exists(template_path).
Contract_l44 ==
  /\ call.fn = "generate_contract" /\ call.pc = "called"
  /\ call' = [call EXCEPT !.pc = IF disk.template = "absent" THEN "l45" ELSE "l48"]
  /\ UNCHANGED <<Others, disk, docs>>

\* line 45: create_contract_template saves the template, or its doc.save
\* fails.
Contract_l45 ==
  /\ call.fn = "generate_contract" /\ call.pc = "l45"
  /\ \E outcome \in {"saved", "failed"} :
       IF outcome = "saved"
       THEN /\ disk' = [disk EXCEPT !.template = "saved", !.saves = @ + 1]
            /\ call' = [call EXCEPT !.pc = "l48"]
       ELSE /\ disk' = disk
            /\ call' = Raises("OSError")
  /\ UNCHANGED <<Others, docs>>

\* lines 48-51: the template is loaded and the context prepared.
Contract_l48 ==
  /\ call.fn = "generate_contract" /\ call.pc = "l48"
  /\ LET context == prepare_contract_context(call.data, clock)
     IN  call' = IF context.exc # "" THEN Raises(context.exc)
                 ELSE [call EXCEPT !.pc = "l54", !.doc = contract_template,
                                   !.context = context.v]
  /\ UNCHANGED <<Others, disk, docs>>

\* line 54: doc.render(context).
Contract_l54 ==
  /\ call.fn = "generate_contract" /\ call.pc = "l54"
  /\ call' = [call EXCEPT !.pc = "l57", !.doc = RenderDocx(@, call.context)]
  /\ UNCHANGED <<Others, disk, docs>>

\* The lines that end a generate function: the path is chosen when none is
\* given, the document is saved to it, or doc.save fails, and the path is
\* returned.
SaveAndReturn(kind, key, default) ==
  LET path == IF call.output_path = None
              THEN DefaultPath(kind, call.data, key, default, clock)
              ELSE call.output_path.s
  IN  \E outcome \in {"saved", "failed"} :
        IF outcome = "saved"
        THEN /\ docs' = Saved(path, call.doc)
             /\ call' = [call EXCEPT !.pc = "returned", !.path = path, !.ret = VStr(path)]
        ELSE /\ docs' = docs
             /\ call' = [Raises("OSError") EXCEPT !.path = path]

\* lines 57-63 of generate_contract.
Contract_l57 ==
  /\ call.fn = "generate_contract" /\ call.pc = "l57"
  /\ SaveAndReturn("contract", "client_name", "client")
  /\ UNCHANGED <<Others, disk>>

\* generate_report(report_data, output_path) is called.
CallGenerateReport ==
  /\ call = NoCall
  /\ \E data \in Reports, output_path \in OutputPaths :
       call' = NewCall("generate_report", data, output_path)
  /\ UNCHANGED <<Others, disk, docs>>

\* The call with added for its document, at pc next.
Adds(next, added) == [call EXCEPT !.pc = next, !.doc = added]

\* lines 162-166: the title.
Report_l162 ==
  /\ call.fn = "generate_report" /\ call.pc = "called"
  /\ call' = Adds("l169",
         <<Heading(ToText(Get(call.data, "title", VTxt("Project Report"))), 0)>>)
  /\ UNCHANGED <<Others, disk, docs>>

\* lines 169-170: the executive summary.
Report_l169 ==
  /\ call.fn = "generate_report" /\ call.pc = "l169"
  /\ call' = Adds("l173",
         call.doc \o <<Heading(<<"Executive Summary">>, 1),
                         Paragraph(ToText(Get(call.data, "summary", VTxt("No summary provided."))))>>)
  /\ UNCHANGED <<Others, disk, docs>>

\* lines 173-174: the project details.
Report_l173 ==
  /\ call.fn = "generate_report" /\ call.pc = "l173"
  /\ call' = Adds("l177",
         add_project_details_table(Append(call.doc, Heading(<<"Project Details">>, 1)),
                                     Get(call.data, "project_details", VDict(<<>>, <<>>))))
  /\ UNCHANGED <<Others, disk, docs>>

\* lines 177-179: the metrics.
Report_l177 ==
  /\ call.fn = "generate_report" /\ call.pc = "l177"
  /\ call' = Adds("l182",
         IF "metrics" \in DOMAIN call.data.m
           THEN add_metrics_table(Append(call.doc, Heading(<<"Key Metrics">>, 1)),
                                  call.data.m.metrics)
           ELSE call.doc)
  /\ UNCHANGED <<Others, disk, docs>>

\* lines 182-184: the financial data.
Report_l182 ==
  /\ call.fn = "generate_report" /\ call.pc = "l182"
  /\ call' = Adds("l187",
         IF WantsFinancials(call.data)
           THEN add_financial_table(Append(call.doc, Heading(<<"Financial Summary">>, 1)),
                                    call.data.m.financials.l)
           ELSE call.doc)
  /\ UNCHANGED <<Others, disk, docs>>

\* lines 187-189: the risk assessment.
Report_l187 ==
  /\ call.fn = "generate_report" /\ call.pc = "l187"
  /\ call' = Adds("l192",
         IF Get(call.data, "status", None) = VTxt("At Risk")
           THEN add_risk_section(Append(call.doc, Heading(<<"Risk Assessment">>, 1)),
                                 Get(call.data, "risk_plan", VList(<<>>)).l)
           ELSE call.doc)
  /\ UNCHANGED <<Others, disk, docs>>

\* lines 192-194: the recommendations.
Report_l192 ==
  /\ call.fn = "generate_report" /\ call.pc = "l192"
  /\ call' = Adds("l197",
         IF "recommendations" \in DOMAIN call.data.m
           THEN add_recommendations_list(Append(call.doc, Heading(<<"Recommendations">>, 1)),
                                         call.data.m.recommendations.l)
           ELSE call.doc)
  /\ UNCHANGED <<Others, disk, docs>>

\* lines 197-203 of generate_report.
Report_l197 ==
  /\ call.fn = "generate_report" /\ call.pc = "l197"
  /\ SaveAndReturn("report", "project_name", "project")
  /\ UNCHANGED <<Others, disk>>

\* generate_letter(letter_data, output_path) is called.
CallGenerateLetter ==
  /\ call = NoCall
  /\ \E data \in Letters, output_path \in OutputPaths :
       call' = NewCall("generate_letter", data, output_path)
  /\ UNCHANGED <<Others, disk, docs>>

\* lines 296-317: the letter is written.
Letter_l296 ==
  /\ call.fn = "generate_letter" /\ call.pc = "called"
  /\ call' = [call EXCEPT !.pc = "l320", !.doc = LetterParagraphs(call.data, clock)]
  /\ UNCHANGED <<Others, disk, docs>>

\* lines 320-326 of generate_letter.
Letter_l320 ==
  /\ call.fn = "generate_letter" /\ call.pc = "l320"
  /\ SaveAndReturn("letter", "recipient_name", "recipient")
  /\ UNCHANGED <<Others, disk>>

NextCalls ==
  \/ CallFormatMilestones \/ CallDateFormatFilter \/ CallAddFinancialTable
  \/ CallGenerateContract \/ Contract_l44 \/ Contract_l45 \/ Contract_l48
  \/ Contract_l54 \/ Contract_l57
  \/ CallGenerateReport \/ Report_l162 \/ Report_l169 \/ Report_l173 \/ Report_l177
  \/ Report_l182 \/ Report_l187 \/ Report_l192 \/ Report_l197
  \/ CallGenerateLetter \/ Letter_l296 \/ Letter_l320
SpecCalls == InitCalls /\ [][NextCalls]_vars

Finished(fn) == call.fn = fn /\ call.pc \in {"returned", "raised"}

\* C25: format_milestones returns 'No specific milestones defined.' for an
\* empty list; for milestones that have a description and a due date it
\* returns a line '<i>. <description> - Due: <due_date>' for each, in their
\* order, numbered from 1, with a newline between two lines and none at the
\* end.
C25_MilestoneLines ==
  Finished("format_milestones")
  => LET ms == call.data.l
         n == Len(ms)
     IN  IF ms = <<>>
         THEN call.pc = "returned" /\ call.ret = VTxt(NoMilestones)
         ELSE (\A i \in 1..n : {"description", "due_date"} \subseteq DOMAIN ms[i].m)
              => /\ call.pc = "returned"
                 /\ LET out == call.ret.s
                        dots == Positions(out, ". ")
                    IN  /\ Len(out) = 6 * n - 1
                        /\ Len(dots) = n
                        /\ out[Len(out)] # "\n"
                        /\ \A k \in 1..n :
                             /\ dots[k] = 6 * k - 4
                             /\ out[dots[k] - 1] = ToString(k)
                             /\ out[dots[k] + 1] = ms[k].m.description.s[1]
                             /\ out[dots[k] + 2] = " - Due: "
                             /\ out[dots[k] + 3] = ms[k].m.due_date.s[1]
                             /\ k < n => out[dots[k] + 4] = "\n"

\* Three dated milestones are formatted.
C25_Witness ==
  /\ call.fn = "format_milestones" /\ call.pc = "returned"
  /\ Len(call.data.l) = MaxMilestones
  /\ Len(Positions(call.ret.s, "\n")) = MaxMilestones - 1

\* The month a two-digit lexeme names.
MonthOf(mm) == MonthName[CHOOSE mo \in 1..12 : TwoDigits(mo) = mm]

C26_WitnessIso ==
  /\ call.fn = "date_format_filter" /\ call.pc = "returned"
  /\ call.data.t = "str" /\ Len(call.data.s) = 8 /\ call.data.s[8] = "Z"
  /\ call.ret = VStr(<<"June", " ", "05", ", ", "2024">>)

\* x < y for two numbers.
Less(x, y) == Num(x) * Den(y) < Num(y) * Den(x)

\* C24: add_financial_table adds the paragraph 'No financial data
\* available.' and no table for an empty list; otherwise one table of a
\* header row and a row for each item in order, whose last cell is the
\* currency-formatted actual - budget, a missing value counting as 0, in
\* parentheses exactly when actual is less than budget.
C24_FinancialTable ==
  Finished("add_financial_table")
  => LET financials == call.data.l
         added == SubSeq(call.doc, 2, Len(call.doc))
     IN  /\ call.pc = "returned"
         /\ call.doc[1].k = "heading"
         /\ IF financials = <<>>
            THEN added = <<Paragraph(<<NoFinancialData>>)>>
            ELSE /\ Len(added) = 1 /\ added[1].k = "table"
                 /\ Len(added[1].rows) = 1 + Len(financials)
                 /\ added[1].rows[1] = <<<<"Period">>, <<"Budget">>, <<"Actual">>, <<"Variance">>>>
                 /\ \A i \in 1..Len(financials) :
                      LET item == financials[i]
                          row == added[1].rows[i + 1]
                          actual == Get(item, "actual", VInt(0))
                          budget == Get(item, "budget", VInt(0))
                          money == MoneyText(Minus(actual, budget))
                      IN  /\ Len(row) = 4
                          /\ row[4] = IF Less(actual, budget)
                                      THEN <<"(">> \o money \o <<")">> ELSE money
                          /\ (item = FinancialItem(VTxt("January"), VInt(50000), VInt(48000)))
                               => row = << <<"January">>,
                                           <<"$", "5", "0", ",", "0", "0", "0", ".", "0", "0">>,
                                           <<"$", "4", "8", ",", "0", "0", "0", ".", "0", "0">>,
                                           <<"(", "$", "-", "2", ",", "0", "0", "0", ".", "0", "0", ")">> >>

\* A table of two items, the first under its budget, the second over it.
C24_Witness ==
  /\ call.fn = "add_financial_table" /\ call.pc = "returned"
  /\ Len(call.data.l) = 2
  /\ Len(call.doc) = 2 /\ Len(call.doc[2].rows) = 3
  /\ call.doc[2].rows[2][4][1] = "("
  /\ call.doc[2].rows[3][4][1] = "$" /\ call.doc[2].rows[3][4][2] # "-"
  /\ call.doc[2].rows[3][4] # <<"$", "0", ".", "0", "0">>

IsHeading(e) == e.k = "heading"
\* The headings of a document, in their order.
Headings(doc) ==
  LET hs == SelectSeq(doc, IsHeading)
  IN  Tuple([i \in 1..Len(hs) |-> hs[i].text], Len(hs))

\* The headings that report_data asks for.
SectionsOf(report_data) ==
  LET has(k) == k \in DOMAIN report_data.m
      when(b, h) == IF b THEN <<<<h>>>> ELSE <<>>
  IN  <<report_data.m.title.s, <<"Executive Summary">>, <<"Project Details">>>>
      \o when(has("metrics"), "Key Metrics")
      \o when(has("financials") /\ has("include_financials")
                /\ report_data.m.include_financials = VBool(TRUE), "Financial Summary")
      \o when(has("status") /\ report_data.m.status = VTxt("At Risk"), "Risk Assessment")
      \o when(has("recommendations"), "Recommendations")

\* C23: the sections of generate_report come in the order title, Executive
\* Summary, Project Details, Key Metrics, Financial Summary, Risk
\* Assessment, Recommendations; the first three always, Key Metrics iff
\* 'metrics' is a key, Financial Summary iff 'financials' is a key and
\* include_financials is true, Risk Assessment iff status is 'At Risk',
\* Recommendations iff 'recommendations' is a key; and the document is saved
\* only when all of them are added.
C23_SectionsInOrder ==
  /\ [](call.fn = "generate_report" /\ call.pc \in {"l197", "returned", "raised"}
          => /\ Headings(call.doc) = SectionsOf(call.data)
             /\ call.pc = "returned" => /\ call.path \in DOMAIN docs
                                        /\ docs[call.path] = call.doc)
  /\ [][call.fn = "generate_report" /\ docs' # docs
          => /\ call.pc = "l197"
             /\ Headings(call.doc) = SectionsOf(call.data)
             /\ docs'[call'.path] = call.doc]_vars

\* A report with all seven sections is saved.
C23_Witness ==
  /\ call.fn = "generate_report" /\ call.pc = "returned"
  /\ Len(Headings(call.doc)) = 7
  /\ Headings(docs[call.path])[5] = <<"Financial Summary">>
\* A report whose 'financials' are not wanted is saved without them.
C23_WitnessUnwanted ==
  /\ call.fn = "generate_report" /\ call.pc = "returned"
  /\ "financials" \in DOMAIN call.data.m
  /\ Len(Headings(docs[call.path])) = 3

\* The path that a finished call of a generate function is to have saved
\* to and returned.
PathOf(kind, key, default) ==
  IF call.output_path # None THEN call.output_path.s
  ELSE LET name == IF key \in DOMAIN call.data.m THEN call.data.m[key].s ELSE <<default>>
       IN  <<kind, "_">>
           \o Tuple([i \in 1..Len(name) |-> IF name[i] = " " THEN "_" ELSE name[i]], Len(name))
           \o <<"_", "20251105", ".docx">>

\* The call returned the path, and the document is saved there.
ReturnedSaved(kind, key, default) ==
  /\ call.pc = "returned"
  /\ call.ret = VStr(PathOf(kind, key, default))
  /\ PathOf(kind, key, default) \in DOMAIN docs
  /\ docs[PathOf(kind, key, default)] = call.doc
  /\ call.doc # <<>>

\* contract_data has the keys and the dates that prepare_contract_context
\* needs, client_name left aside.
GoodButName(contract_data) ==
  /\ {"project_name", "start_date", "end_date", "amount"} \subseteq DOMAIN contract_data.m
  /\ contract_data.m.start_date.t = "str" /\ IsIsoDate(contract_data.m.start_date.s)
  /\ contract_data.m.end_date.t = "str" /\ IsIsoDate(contract_data.m.end_date.s)

\* No doc.save of the call failed.
Written == call.exc # "OSError"

\* C21: generate_contract raises on contract_data that lacks a required key
\* or has a date that is not YYYY-MM-DD, saves no document and leaves the
\* disk, the templates directory included, as it was.
C21_AllOrNothing ==
  (Finished("generate_contract") /\ Written
     /\ ~(GoodButName(call.data) /\ "client_name" \in DOMAIN call.data.m))
  => /\ call.pc = "raised"
     /\ docs = call.before.docs
     /\ disk = call.before.disk

\* C22, as the specification states it: a generate function returns the
\* path of the document it saved, the given output_path or
\* '<kind>_<name>_<YYYYMMDD>.docx', the name with '_' for every space, or
\* 'client', 'project', 'recipient' when the key is absent.
C22_ReturnsDefaultNamedPath ==
  /\ (Finished("generate_contract") /\ Written /\ GoodButName(call.data))
       => ReturnedSaved("contract", "client_name", "client")
  /\ (Finished("generate_report") /\ Written)
       => ReturnedSaved("report", "project_name", "project")
  /\ (Finished("generate_letter") /\ Written)
       => ReturnedSaved("letter", "recipient_name", "recipient")

\* C22, amended: generate_report and generate_letter do so, with 'project'
\* and 'recipient' for an absent key; generate_contract does so when
\* client_name is a key, and raises KeyError and saves nothing when it is
\* not.
C22_ReturnsSavedPath ==
  /\ (Finished("generate_contract") /\ Written /\ GoodButName(call.data))
       => IF "client_name" \in DOMAIN call.data.m
          THEN ReturnedSaved("contract", "client_name", "client")
          ELSE call.pc = "raised" /\ call.exc = "KeyError" /\ docs = call.before.docs
  /\ (Finished("generate_report") /\ Written)
       => ReturnedSaved("report", "project_name", "project")
  /\ (Finished("generate_letter") /\ Written)
       => ReturnedSaved("letter", "recipient_name", "recipient")

\* A contract is saved to the path made of the client's name.
C22_Witness ==
  /\ call.fn = "generate_contract" /\ call.pc = "returned" /\ call.output_path = None
  /\ call.ret = VStr(<<"contract", "_", "Acme", "_", "Corporation", "_", "20251105", ".docx">>)
  /\ call.ret.s \in DOMAIN docs
\* A report and a letter are saved to the path of the default name.
C22_WitnessDefault ==
  /\ call.pc = "returned" /\ call.output_path = None
  /\ \/ call.fn = "generate_report" /\ call.ret = VStr(<<"report", "_", "project", "_", "20251105", ".docx">>)
     \/ call.fn = "generate_letter" /\ call.ret = VStr(<<"letter", "_", "recipient", "_", "20251105", ".docx">>)
  /\ call.ret.s \in DOMAIN docs
\* A document is saved to the path that the caller gave.
C22_WitnessGiven ==
  /\ call.pc = "returned" /\ call.output_path = VTxt("out/document.docx")
  /\ call.fn = "generate_letter"
  /\ docs[<<"out/document.docx">>] = call.doc /\ call.doc # OldDocument

====
